---- MODULE Spec2Model ----
(***************************************************************************)
(* homebridge-rain-status: the polling / retry scheduler and the state     *)
(* derivation of the RainStatus platform.                                  *)
(*                                                                         *)
(* The repository holds several generations of the platform.  Two of them  *)
(* are modelled here:                                                      *)
(*   Spec      the platform-level implementation (src/unnamed/part_001,    *)
(*             lines 376-840): state in currentRainState and               *)
(*             previousRainState, observers told on change only, no retry. *)
(*   SpecRetry the per-accessory switch implementation (src/index.js,      *)
(*             lines 368-671): state in the Switch On characteristic,      *)
(*             checkCurrentRain retries with exponential backoff.          *)
(*                                                                         *)
(* Time is abstract: an armed interval timer may fire at any moment and a  *)
(* pending request or backoff sleep may complete at any moment.  JS values *)
(* are written as strings ("false", "true", "0", "1") so that false and 0  *)
(* stay different values under the strict comparison !== of the code.      *)
(***************************************************************************)
EXTENDS Integers, Sequences, FiniteSets, Bags, TLC

VARIABLES
  config,             \* the platform configuration handed to the constructor
  accessoryLookup,    \* platform: the sources that have an accessory instance
  currentRainState,   \* platform: this.currentRainState
  previousRainState,  \* platform: this.previousRainState
  isPolling,          \* platform: this.isPolling
  pollingIntervals,   \* source -> period in ms of its armed, recorded timer (0: none)
  orphanTimers,       \* source -> its armed timers whose id is recorded nowhere
  cycles,             \* the bag of fetch cycles (pending promise chains) in flight
  launched,           \* switch variant: didFinishLaunching has been delivered
  switchOn,           \* switch variant: source -> value of the Switch On characteristic
  event,              \* history: what the last step did, when it ended a fetch attempt
  log                 \* history: source -> its first two successful cycles

vars == <<config, accessoryLookup, currentRainState, previousRainState, isPolling,
          pollingIntervals, orphanTimers, cycles, launched, switchOn, event, log>>

----------------------------------------------------------------------------
(* Bounds of the model *)

\* the number of fetch cycles that can be in flight at once (all sources together)
MaxInFlight == 2

Sources == {"current_rain", "previous_rain"}

----------------------------------------------------------------------------
(* Configuration *)

\* one section of config: present says whether the section exists, station_id
\* whether it names a station, check_interval is in hundredths of a minute
\* (0: omitted, which `||` treats like 0), the thresholds are in hundredths of
\* an inch (0: omitted); rain_threshold is the single threshold the switch
\* implementation reads
Section(present, station, interval, dayThr, twoDayThr) ==
  [present |-> present, station_id |-> station, check_interval |-> interval,
   previous_day_threshold |-> dayThr, two_day_threshold |-> twoDayThr,
   rain_threshold |-> dayThr]

NoSection == Section(FALSE, FALSE, 0, 0, 0)

Configs ==
  { [current_rain |-> Section(TRUE, TRUE, 0, 0, 0),
     previous_rain |-> Section(TRUE, TRUE, 0, 0, 0)],
    [current_rain |-> NoSection,
     previous_rain |-> Section(TRUE, TRUE, 500, 10, 25)],
    [current_rain |-> Section(TRUE, TRUE, 1, 0, 0),
     previous_rain |-> NoSection],
    [current_rain |-> Section(TRUE, FALSE, 500, 0, 0),
     previous_rain |-> NoSection] }

\* the default check_interval of each source: 5 and 60 minutes
DefaultCheckInterval(s) == IF s = "current_rain" THEN 500 ELSE 6000

\* (config.<s>.check_interval || default) * 60 * 1000
CheckIntervalMs(s) ==
  (IF config[s].check_interval # 0 THEN config[s].check_interval
   ELSE DefaultCheckInterval(s)) * 600

\* the minimum check_interval the README documents: 1 and 15 minutes
MinCheckInterval(s) == IF s = "current_rain" THEN 100 ELSE 1500

\* previous_day_threshold || 0.1 and two_day_threshold || 0.25, in hundredths
PreviousDayThreshold ==
  IF config.previous_rain.previous_day_threshold # 0
  THEN config.previous_rain.previous_day_threshold ELSE 10

TwoDayThreshold ==
  IF config.previous_rain.two_day_threshold # 0
  THEN config.previous_rain.two_day_threshold ELSE 25

----------------------------------------------------------------------------
(* Weather descriptions and the rain classifier *)

Str_LightRain == <<"L","i","g","h","t"," ","R","a","i","n">>
Str_Sunny == <<"S","u","n","n","y">>

UpperCase == <<"A","B","C","D","E","F","G","H","I","J","K","L","M",
               "N","O","P","Q","R","S","T","U","V","W","X","Y","Z">>
LowerCase == <<"a","b","c","d","e","f","g","h","i","j","k","l","m",
               "n","o","p","q","r","s","t","u","v","w","x","y","z">>

\* String.prototype.toLowerCase
toLowerCase(str) ==
  [i \in 1..Len(str) |->
     IF \E k \in 1..Len(UpperCase) : UpperCase[k] = str[i]
     THEN LowerCase[CHOOSE k \in 1..Len(UpperCase) : UpperCase[k] = str[i]]
     ELSE str[i]]

\* a containment test that looks at the start of the string only
includes_PrefixOnly(str, term) ==
  Len(term) <= Len(str) /\ SubSeq(str, 1, Len(term)) = term

\* String.prototype.includes
includes(str, term) ==
  \E i \in 0..(Len(str) - Len(term)) : SubSeq(str, i + 1, i + Len(term)) = term

weatherTerms ==
  << <<"r","a","i","n">>, <<"d","r","i","z","z","l","e">>,
     <<"s","h","o","w","e","r">>,
     <<"p","r","e","c","i","p","i","t","a","t","i","o","n">>,
     <<"m","i","s","t">>, <<"f","o","g">>, <<"d","r","i","z","z","l","e">>,
     <<"l","i","g","h","t"," ","r","a","i","n">>,
     <<"r","a">>, <<"d","z">>, <<"s","h","r","a">>, <<"f","z","r","a">>,
     <<"b","r">>, <<"f","g">> >>

\* weatherTerms.some(term => weatherDescription.includes(term))
isRaining(weatherDescription) ==
  \E k \in 1..Len(weatherTerms) : includes(weatherDescription, weatherTerms[k])

\* a JS boolean as the model writes it
Bool(b) == IF b THEN "true" ELSE "false"

----------------------------------------------------------------------------
(* Upstream answers *)

\* textDescription of the latest observation: absent, null or a string
Text(kind, chars) == [kind |-> kind, chars |-> chars]

\* the body of a latest-observation answer
Observation(properties, text) == [properties |-> properties, textDescription |-> text]

ObservationBodies ==
  { Observation(FALSE, Text("missing", <<>>)),
    Observation(TRUE, Text("missing", <<>>)),
    Observation(TRUE, Text("null", <<>>)),
    Observation(TRUE, Text("string", <<>>)),
    Observation(TRUE, Text("string", Str_LightRain)),
    Observation(TRUE, Text("string", Str_Sunny)) }

\* an error as the catch clause sees it: response is the HTTP status of
\* error.response (0: no response), request says whether error.request is set
Error(response, request, message) ==
  [response |-> response, request |-> request, message |-> message]

NoError == Error(0, FALSE, "")
TransportError == Error(0, TRUE, "Network Error")
StatusError(code) == Error(code, TRUE, "Request failed with status code")
InvalidStructure == Error(0, FALSE, "Invalid API response structure")
NoDescription == Error(0, FALSE, "No weather description available")

\* the failures axios reports for a request
AxiosErrors == {TransportError, StatusError(404), StatusError(429), StatusError(500)}

\* one daily value of the ACIS answer: null, a numeric string (n hundredths of
\* an inch) or a non-numeric string
Value(kind, n) == [kind |-> kind, n |-> n]
Day(date, value) == [date |-> date, value |-> value]

\* the body of a StnData answer; dates are calendar days relative to the local
\* today (-1: yesterday)
Rainfall(hasData, data) == [hasData |-> hasData, data |-> data]

RainfallBodies ==
  { Rainfall(FALSE, <<>>),
    Rainfall(TRUE, <<Day(-3, Value("num", 0)), Day(-2, Value("num", 8)),
                     Day(-1, Value("num", 5))>>),
    Rainfall(TRUE, <<Day(-3, Value("nan", 0)), Day(-2, Value("null", 0)),
                     Day(-1, Value("num", 10))>>),
    Rainfall(TRUE, <<Day(-3, Value("num", 0)), Day(-2, Value("num", 20)),
                     Day(-1, Value("num", 5))>>) }

----------------------------------------------------------------------------
(* Rainfall derivation of the platform *)

yesterdayStr == -1
dayBeforeYesterdayStr == -2
threeDaysAgoStr == -3

NoRain == [previousDayRain |-> 0, twoDayRain |-> 0, threeDayRain |-> 0]

\* value !== null && !isNaN(parseFloat(value))
IsNumeric(value) == value.kind = "num"

\* a loop body in which a null value clears the sums
ParseDay_NullResets(sums, day) ==
  IF day.value.kind = "null" THEN NoRain
  ELSE IF IsNumeric(day.value)
  THEN [previousDayRain |->
          IF day.date = yesterdayStr THEN day.value.n ELSE sums.previousDayRain,
        twoDayRain |->
          IF day.date \in {yesterdayStr, dayBeforeYesterdayStr}
          THEN sums.twoDayRain + day.value.n ELSE sums.twoDayRain,
        threeDayRain |->
          IF day.date \in {yesterdayStr, dayBeforeYesterdayStr, threeDaysAgoStr}
          THEN sums.threeDayRain + day.value.n ELSE sums.threeDayRain]
  ELSE sums

\* the body of the for loop over response.data.data
ParseDay(sums, day) ==
  IF IsNumeric(day.value)
  THEN [previousDayRain |->
          IF day.date = yesterdayStr THEN day.value.n ELSE sums.previousDayRain,
        twoDayRain |->
          IF day.date \in {yesterdayStr, dayBeforeYesterdayStr}
          THEN sums.twoDayRain + day.value.n ELSE sums.twoDayRain,
        threeDayRain |->
          IF day.date \in {yesterdayStr, dayBeforeYesterdayStr, threeDaysAgoStr}
          THEN sums.threeDayRain + day.value.n ELSE sums.threeDayRain]
  ELSE sums

RECURSIVE ParseDays(_, _)
ParseDays(sums, data) ==
  IF data = <<>> THEN sums ELSE ParseDays(ParseDay(sums, Head(data)), Tail(data))

\* window sums whose two-day window leaves out yesterday
RainSums_WithoutYesterday(body) ==
  LET data == IF body.hasData THEN body.data ELSE <<>>
      sums == ParseDays(NoRain, data)
  IN  [sums EXCEPT !.twoDayRain =
         ParseDays(NoRain, SelectSeq(data, LAMBDA day : day.date # yesterdayStr)).twoDayRain]

\* the window sums after the loop; a body without data leaves them at 0
RainSums(body) == IF body.hasData THEN ParseDays(NoRain, body.data) ELSE NoRain

\* newState of checkPreviousRain: 1 or 0
PreviousRainNewState(body) ==
  IF \/ RainSums(body).previousDayRain >= PreviousDayThreshold
     \/ RainSums(body).twoDayRain >= TwoDayThreshold
  THEN "1" ELSE "0"

----------------------------------------------------------------------------
(* Fetch cycles *)

\* the classes of failure the retry policy of the specification distinguishes
ErrClass(error) ==
  IF error.response = 0 /\ error.request THEN "transport"
  ELSE IF error.response = 429 \/ error.response >= 500 THEN "retryable"
  ELSE "fatal"

\* the worse of two failure classes ("none": no failure)
Worse(a, b) ==
  IF "fatal" \in {a, b} THEN "fatal"
  ELSE IF "retryable" \in {a, b} THEN "retryable"
  ELSE IF "transport" \in {a, b} THEN "transport"
  ELSE "none"

\* a cycle in flight. pc: "request" (awaiting axios) or "sleep" (awaiting the
\* backoff timer, armed with delay ms); worst (history) is the worst failure
\* class among the failed attempts of the cycle so far
Cycle(s, pc, retryCount, delay, worst) ==
  [src |-> s, pc |-> pc, retryCount |-> retryCount, delay |-> delay, worst |-> worst]

\* the cycles in flight, one of each kind
Pending == BagToSet(cycles)

\* the number of cycles of source s in flight
InFlight(s) ==
  BagCardinality([c \in {d \in Pending : d.src = s} |-> cycles[c]])

\* the cycles that can still start within the bound
Room(cs) == MaxInFlight - BagCardinality(cs)

\* a call of check...Rain() runs up to its first await: the request is issued
NewCycle(cs, s) == cs (+) SetToBag({Cycle(s, "request", 0, 0, "none")})

\* cycle c ends
Ended(c) == cycles (-) SetToBag({c})

\* cycle c goes on as cycle d
Becomes(c, d) == (cycles (-) SetToBag({c})) (+) SetToBag({d})

\* no body: the request failed
NoBody == [none |-> TRUE]

NoEvent ==
  [src |-> "none", outcome |-> "none", body |-> NoBody, error |-> NoError,
   attempt |-> 0, worst |-> "none", derived |-> "none", notified |-> {},
   dates |-> <<>>]

\* history: the end of an attempt of cycle c of source s. outcome is "success",
\* "retry" (the cycle goes on) or "failed"; body is the answer received and
\* error the error caught; the end of a cycle also records the number of the
\* attempt, the worst failure class of the attempts before it, the state
\* derived and the accessories whose observers were invoked; dates are the
\* yesterdayStr and dayBeforeYesterdayStr of a call that formatted them itself
Attempt(s, c, outcome, body, error, derived, notified) ==
  [src |-> s, outcome |-> outcome, body |-> body, error |-> error,
   attempt |-> IF outcome = "retry" THEN 0 ELSE c.retryCount + 1,
   worst |-> IF outcome = "retry" THEN "none" ELSE c.worst,
   derived |-> derived, notified |-> notified,
   dates |-> IF "yesterdayStr" \in DOMAIN c
             THEN <<c.yesterdayStr, c.dayBeforeYesterdayStr>> ELSE <<>>]

\* history: the first two successful cycles of a source
Logged(s, derived, notified) ==
  IF Len(log[s]) < 2
  THEN [log EXCEPT ![s] = Append(@, [derived |-> derived, notified |-> notified])]
  ELSE log

----------------------------------------------------------------------------
(* The platform-level implementation *)

Init ==
  /\ config \in Configs
  /\ accessoryLookup = {}
  /\ currentRainState = "false"
  /\ previousRainState = "false"
  /\ isPolling = FALSE
  /\ pollingIntervals = [s \in Sources |-> 0]
  /\ cycles = EmptyBag
  /\ launched = FALSE
  /\ switchOn = [s \in Sources |-> "false"]
  /\ event = NoEvent
  /\ log = [s \in Sources |-> <<>>]
  /\ orphanTimers = [s \in Sources |-> 0]

\* the sources startPlatformPolling starts
Polled == {s \in Sources : config[s].present /\ config[s].station_id}

\* setInterval(...); this.pollingIntervals[key] = intervalId
ArmTimers(started) ==
  [s \in Sources |-> IF s \in started THEN CheckIntervalMs(s) ELSE pollingIntervals[s]]

\* a start that arms the timers and issues no initial check
InitialChecks_None(started) == cycles

\* the initial checks of startCurrentRainPolling and startPreviousRainPolling
InitialChecks(started) ==
  LET cs1 == IF "current_rain" \in started THEN NewCycle(cycles, "current_rain")
             ELSE cycles
  IN  IF "previous_rain" \in started THEN NewCycle(cs1, "previous_rain") ELSE cs1

startPlatformPolling ==
  IF isPolling
  THEN UNCHANGED <<isPolling, pollingIntervals, cycles>>
  ELSE /\ Room(cycles) >= Cardinality(Polled)
       /\ isPolling' = TRUE
       /\ pollingIntervals' = ArmTimers(Polled)
       /\ cycles' = InitialChecks(Polled)

\* Homebridge asks for the accessories
accessories ==
  /\ accessoryLookup' = {s \in Sources : config[s].present}
  /\ startPlatformPolling
  /\ event' = NoEvent
  /\ UNCHANGED <<config, orphanTimers, currentRainState, previousRainState, launched, switchOn, log>>

\* timeout: 10000 of the latest-observation request, in ms
RequestTimeout == 10000

\* a timer that no longer fires once an attempt has failed
CanFire_StopsAfterFailure(s, maxCycleMs) ==
  /\ pollingIntervals[s] # 0
  /\ s = "current_rain" => InFlight(s) * pollingIntervals[s] < maxCycleMs
  /\ event.outcome # "failed"

\* Whether the timer of source s can fire now. The StnData request has no
\* timeout, so a previous-rain cycle can outlast any number of periods; a
\* current-rain cycle lasts less than maxCycleMs, so k of them are in flight
\* at a tick only when k periods fit into that time.
CanFire(s, maxCycleMs) ==
  /\ pollingIntervals[s] # 0
  /\ s = "current_rain" => InFlight(s) * pollingIntervals[s] < maxCycleMs

\* an interval timer of source s fires
Tick(s) ==
  /\ CanFire(s, RequestTimeout)
  /\ Room(cycles) >= 1
  /\ cycles' = NewCycle(cycles, s)
  /\ event' = NoEvent
  /\ UNCHANGED <<config, orphanTimers, accessoryLookup, currentRainState, previousRainState,
                 isPolling, pollingIntervals, launched, switchOn, log>>

\* the updateAllAccessories() call: the accessories whose updateData() runs
updateAllAccessories == accessoryLookup

\* CurrentRainAccessory.getCurrentRainState: this.platform.currentRainState ? 1 : 0
getCurrentRainState == IF currentRainState = "true" THEN "1" ELSE "0"

\* PreviousRainAccessory.getPreviousRainState: this.platform.previousRainState
getPreviousRainState == previousRainState

\* a validation that lets a body without a description through
ValidateObservation_Lenient(body) ==
  IF ~body.properties THEN InvalidStructure ELSE NoError

\* the validation of the latest-observation body: the error it throws, or NoError
ValidateObservation(body) ==
  IF ~body.properties THEN InvalidStructure
  ELSE IF body.textDescription.kind # "string" \/ body.textDescription.chars = <<>>
       THEN NoDescription
       ELSE NoError

\* a catch clause that falls back to the default state
PlatformCatch_Reset(c, body, error) ==
  /\ cycles' = Ended(c)
  /\ event' = Attempt(c.src, c, "failed", body, error, "none", {})
  /\ currentRainState' = IF c.src = "current_rain" THEN "false" ELSE currentRainState
  /\ previousRainState' = IF c.src = "previous_rain" THEN "false" ELSE previousRainState
  /\ UNCHANGED log

\* the catch clause of the platform's checkCurrentRain and checkPreviousRain
PlatformCatch(c, body, error) ==
  /\ cycles' = Ended(c)
  /\ event' = Attempt(c.src, c, "failed", body, error, "none", {})
  /\ UNCHANGED <<currentRainState, previousRainState, log>>

\* a state update that also clears the state of the other source
PlatformCurrentRainUpdate_ClearsOther(c, body, raining) ==
  LET previousState == currentRainState
      notified == IF previousState # raining THEN updateAllAccessories ELSE {}
  IN  /\ currentRainState' = raining
      /\ cycles' = Ended(c)
      /\ event' = Attempt("current_rain", c, "success", body, NoError, raining, notified)
      /\ log' = Logged("current_rain", raining, notified # {})
      /\ previousRainState' = "0"

\* the state update of the platform's checkCurrentRain
PlatformCurrentRainUpdate(c, body, raining) ==
  LET previousState == currentRainState
      notified == IF previousState # raining THEN updateAllAccessories ELSE {}
  IN  /\ currentRainState' = raining
      /\ cycles' = Ended(c)
      /\ event' = Attempt("current_rain", c, "success", body, NoError, raining, notified)
      /\ log' = Logged("current_rain", raining, notified # {})
      /\ UNCHANGED previousRainState

\* the request of a current-rain cycle is answered with a body
checkCurrentRain_Body(c, body) ==
  /\ c \in Pending /\ c.pc = "request" /\ c.src = "current_rain"
  /\ IF ValidateObservation(body) # NoError
     THEN PlatformCatch(c, body, ValidateObservation(body))
     ELSE PlatformCurrentRainUpdate(
            c, body, Bool(isRaining(toLowerCase(body.textDescription.chars))))
  /\ UNCHANGED <<config, orphanTimers, accessoryLookup, isPolling, pollingIntervals, launched, switchOn>>

\* the request of a current-rain cycle fails
checkCurrentRain_Error(c, error) ==
  /\ c \in Pending /\ c.pc = "request" /\ c.src = "current_rain"
  /\ PlatformCatch(c, NoBody, error)
  /\ UNCHANGED <<config, orphanTimers, accessoryLookup, isPolling, pollingIntervals, launched, switchOn>>

\* the warnings the platform's loop logs for an answer: its test
\* if (!isNaN(parsedValue)) has no else branch, a value that does not parse
\* is passed over without a message
Platform_Warnings(body) == 0

\* the state update of the platform's checkPreviousRain
PlatformPreviousRainUpdate(c, body, newState) ==
  LET previousState == previousRainState
      notified == IF previousState # newState THEN updateAllAccessories ELSE {}
  IN  /\ previousRainState' = newState
      /\ cycles' = Ended(c)
      /\ event' = Attempt("previous_rain", c, "success", body, NoError, newState, notified)
                    @@ [warnings |-> Platform_Warnings(body)]
      /\ log' = Logged("previous_rain", newState, notified # {})
      /\ UNCHANGED currentRainState

\* the request of a previous-rain cycle is answered with a body
checkPreviousRain_Body(c, body) ==
  /\ c \in Pending /\ c.pc = "request" /\ c.src = "previous_rain"
  /\ PlatformPreviousRainUpdate(c, body, PreviousRainNewState(body))
  /\ UNCHANGED <<config, orphanTimers, accessoryLookup, isPolling, pollingIntervals, launched, switchOn>>

\* the request of a previous-rain cycle fails
checkPreviousRain_Error(c, error) ==
  /\ c \in Pending /\ c.pc = "request" /\ c.src = "previous_rain"
  /\ PlatformCatch(c, NoBody, error)
  /\ UNCHANGED <<config, orphanTimers, accessoryLookup, isPolling, pollingIntervals, launched, switchOn>>

\* clearInterval on every recorded timer
unload ==
  /\ pollingIntervals' = [s \in Sources |-> 0]
  /\ isPolling' = FALSE
  /\ event' = NoEvent
  /\ UNCHANGED <<config, orphanTimers, accessoryLookup, currentRainState, previousRainState,
                 cycles, launched, switchOn, log>>

Next ==
  \/ accessories
  \/ \E s \in Sources : Tick(s)
  \/ \E c \in Pending, body \in ObservationBodies : checkCurrentRain_Body(c, body)
  \/ \E c \in Pending, error \in AxiosErrors : checkCurrentRain_Error(c, error)
  \/ \E c \in Pending, body \in RainfallBodies : checkPreviousRain_Body(c, body)
  \/ \E c \in Pending, error \in AxiosErrors : checkPreviousRain_Error(c, error)
  \/ unload

Spec == Init /\ [][Next]_vars

\* a pending cycle of source s ends: its request is answered or fails
Finish(s) ==
  \/ \E c \in Pending, body \in ObservationBodies :
       c.src = s /\ checkCurrentRain_Body(c, body)
  \/ \E c \in Pending, error \in AxiosErrors :
       c.src = s /\ checkCurrentRain_Error(c, error)
  \/ \E c \in Pending, body \in RainfallBodies :
       c.src = s /\ checkPreviousRain_Body(c, body)
  \/ \E c \in Pending, error \in AxiosErrors :
       c.src = s /\ checkPreviousRain_Error(c, error)

\* setInterval fires an armed timer again and again, whatever the cycles do;
\* the cycles in flight end, so that the bound on them never blocks a timer
Fairness ==
  /\ \A s \in Sources : SF_vars(Tick(s))
  /\ \A s \in Sources : WF_vars(Finish(s))

SpecLive == Init /\ [][Next]_vars /\ Fairness

\* what the requests themselves guarantee when the server may never answer:
\* the latest-observation request has timeout: 10000 and fails when it
\* expires; the StnData request is sent without a timeout and is left waiting
TimeoutFairness == WF_vars(Finish("current_rain"))

SpecTimeout == Init /\ [][Next]_vars /\ TimeoutFairness

\* setCurrentRainState(isRaining), the manual trigger: the state is written
\* and updateData() is called on every accessory
setCurrentRainState(raining) ==
  /\ currentRainState' = raining
  /\ event' = [NoEvent EXCEPT !.src = "current_rain", !.outcome = "manual",
                              !.notified = updateAllAccessories]
  /\ UNCHANGED <<config, orphanTimers, accessoryLookup, previousRainState, isPolling,
                 pollingIntervals, cycles, launched, switchOn, log>>

\* the platform with the calls of its manual trigger
NextManual ==
  \/ accessories
  \/ \E raining \in {"true", "false"} : setCurrentRainState(raining)
  \/ \E s \in Sources : Tick(s)
  \/ \E c \in Pending, body \in ObservationBodies : checkCurrentRain_Body(c, body)
  \/ \E c \in Pending, error \in AxiosErrors : checkCurrentRain_Error(c, error)
  \/ \E c \in Pending, body \in RainfallBodies : checkPreviousRain_Body(c, body)
  \/ \E c \in Pending, error \in AxiosErrors : checkPreviousRain_Error(c, error)
  \/ unload

SpecManual == Init /\ [][NextManual]_vars

----------------------------------------------------------------------------
(* The platform-level implementation with accessories whose updateData() can
   throw *)

\* what an exception thrown out of updateData() arrives as in the catch clause
ObserverError == Error(0, FALSE, "updateData failed")

\* forEach over the accessories: those whose updateData() has been called when
\* the one named thrower throws; the current rain sensor is created first
Invoked(thrower) ==
  IF thrower = "current_rain" /\ thrower \in accessoryLookup
  THEN {"current_rain"} ELSE updateAllAccessories

\* updateData() of accessory a: getValue() on its bound characteristic runs
\* the get handler, which calls the accessory's getter
getValue(a) == IF a = "current_rain" THEN getCurrentRainState ELSE getPreviousRainState

\* whether the notification ends with an exception
Thrown(thrower, notified) == thrower \in notified

\* the end of a cycle whose answer was accepted: a success, or the catch
\* clause when updateAllAccessories() threw; seen is what each accessory's
\* getter returned during the notification
Observed(s, c, body, derived, notified, thrower, seen) ==
  Attempt(s, c, IF Thrown(thrower, notified) THEN "failed" ELSE "success", body,
          IF Thrown(thrower, notified) THEN ObserverError ELSE NoError,
          derived, notified)
    @@ [seen |-> seen]

\* a state update that undoes the assignment when the notification throws
ObservedCurrentRainUpdate_RollsBack(c, body, raining, thrower) ==
  LET previousState == currentRainState
      notified == IF previousState # raining THEN Invoked(thrower) ELSE {}
  IN  /\ currentRainState' = IF Thrown(thrower, notified) THEN previousState ELSE raining
      /\ UNCHANGED previousRainState
      /\ cycles' = Ended(c)
      /\ event' = Observed("current_rain", c, body, raining, notified, thrower,
                           [a \in notified |-> getValue(a)'])
      /\ log' = IF Thrown(thrower, notified) THEN log
                ELSE Logged("current_rain", raining, notified # {})

\* the state update of checkCurrentRain: the assignment, then the notification
ObservedCurrentRainUpdate(c, body, raining, thrower) ==
  LET previousState == currentRainState
      notified == IF previousState # raining THEN Invoked(thrower) ELSE {}
  IN  /\ currentRainState' = raining
      /\ UNCHANGED previousRainState
      /\ cycles' = Ended(c)
      /\ event' = Observed("current_rain", c, body, raining, notified, thrower,
                           [a \in notified |-> getValue(a)'])
      /\ log' = IF Thrown(thrower, notified) THEN log
                ELSE Logged("current_rain", raining, notified # {})

\* the request of a current-rain cycle is answered with a body
Observed_checkCurrentRain_Body(c, body, thrower) ==
  /\ c \in Pending /\ c.pc = "request" /\ c.src = "current_rain"
  /\ IF ValidateObservation(body) # NoError
     THEN PlatformCatch(c, body, ValidateObservation(body))
     ELSE ObservedCurrentRainUpdate(
            c, body, Bool(isRaining(toLowerCase(body.textDescription.chars))), thrower)
  /\ UNCHANGED <<config, orphanTimers, accessoryLookup, isPolling, pollingIntervals,
                 launched, switchOn>>

\* the request of a previous-rain cycle is answered with a body
Observed_checkPreviousRain_Body(c, body, thrower) ==
  /\ c \in Pending /\ c.pc = "request" /\ c.src = "previous_rain"
  /\ LET previousState == previousRainState
         newState == PreviousRainNewState(body)
         notified == IF previousState # newState THEN Invoked(thrower) ELSE {}
     IN  /\ previousRainState' = newState
         /\ UNCHANGED currentRainState
         /\ cycles' = Ended(c)
         /\ event' = Observed("previous_rain", c, body, newState, notified, thrower,
                              [a \in notified |-> getValue(a)'])
         /\ log' = IF Thrown(thrower, notified) THEN log
                   ELSE Logged("previous_rain", newState, notified # {})
  /\ UNCHANGED <<config, orphanTimers, accessoryLookup, isPolling, pollingIntervals,
                 launched, switchOn>>

NextObserved ==
  \/ accessories
  \/ \E s \in Sources : Tick(s)
  \/ \E c \in Pending, body \in ObservationBodies, thrower \in Sources \cup {"none"} :
       Observed_checkCurrentRain_Body(c, body, thrower)
  \/ \E c \in Pending, error \in AxiosErrors : checkCurrentRain_Error(c, error)
  \/ \E c \in Pending, body \in RainfallBodies, thrower \in Sources \cup {"none"} :
       Observed_checkPreviousRain_Body(c, body, thrower)
  \/ \E c \in Pending, error \in AxiosErrors : checkPreviousRain_Error(c, error)
  \/ unload

\* both sensors, each with a station
InitObserved == Init /\ Polled = Sources

SpecObserved == InitObserved /\ [][NextObserved]_vars

----------------------------------------------------------------------------
(* The per-accessory switch implementation, with retry *)

\* the retries checkCurrentRain allows itself
MaxRetries == 3

\* a retry test that allows one retry more
ShouldRetry_OneMore(retryCount, error) == retryCount <= MaxRetries

\* if (retryCount < 3)
ShouldRetry(retryCount, error) == retryCount < MaxRetries

\* Math.pow(2, retryCount) * 1000
BackoffDelay(retryCount) == (2 ^ retryCount) * 1000

\* the sources initializeSwitches creates a switch for and starts to poll
Configured == {s \in Sources : config[s].present}

\* Homebridge reports that it has finished launching: initializeSwitches()
didFinishLaunching ==
  /\ ~launched
  /\ Room(cycles) >= Cardinality(Configured)
  /\ launched' = TRUE
  /\ pollingIntervals' = ArmTimers(Configured)
  /\ cycles' = InitialChecks(Configured)
  /\ event' = NoEvent
  /\ UNCHANGED <<config, orphanTimers, accessoryLookup, currentRainState, previousRainState,
                 isPolling, switchOn, log>>

\* the longest a current-rain cycle lasts: four requests and three sleeps
Switch_MaxCycleMs == (MaxRetries + 1) * RequestTimeout + 1000 + 2000 + 4000

\* an interval timer of source s fires
Switch_Tick(s) ==
  /\ CanFire(s, Switch_MaxCycleMs)
  /\ Room(cycles) >= 1
  /\ cycles' = NewCycle(cycles, s)
  /\ event' = NoEvent
  /\ UNCHANGED <<config, orphanTimers, accessoryLookup, currentRainState, previousRainState,
                 isPolling, pollingIntervals, launched, switchOn, log>>

\* the catch clause of the switch's checkCurrentRain
Switch_CatchCurrentRain(c, body, error) ==
  /\ IF ShouldRetry(c.retryCount, error)
     THEN /\ cycles' = Becomes(c, Cycle(c.src, "sleep", c.retryCount,
                                          BackoffDelay(c.retryCount),
                                          Worse(c.worst, ErrClass(error))))
          /\ event' = Attempt("current_rain", c, "retry", body, error, "none", {})
     ELSE /\ cycles' = Ended(c)
          /\ event' = Attempt("current_rain", c, "failed", body, error, "none", {})
  /\ UNCHANGED <<switchOn, log>>

\* the comparison with the characteristic's value and updateValue(newState)
Switch_Update(c, body, newState) ==
  LET currentState == switchOn[c.src]
      notified == IF currentState # newState THEN {c.src} ELSE {}
  IN  /\ switchOn' = IF currentState # newState
                     THEN [switchOn EXCEPT ![c.src] = newState] ELSE switchOn
      /\ cycles' = Ended(c)
      /\ event' = Attempt(c.src, c, "success", body, NoError, newState, notified)
      /\ log' = Logged(c.src, newState, notified # {})

\* the request of a current-rain attempt is answered with a body
Switch_checkCurrentRain_Body(c, body) ==
  /\ c \in Pending /\ c.pc = "request" /\ c.src = "current_rain"
  /\ IF ValidateObservation(body) # NoError
     THEN Switch_CatchCurrentRain(c, body, ValidateObservation(body))
     ELSE Switch_Update(c, body, Bool(isRaining(toLowerCase(body.textDescription.chars))))
  /\ UNCHANGED <<config, orphanTimers, accessoryLookup, currentRainState, previousRainState,
                 isPolling, pollingIntervals, launched>>

\* the request of a current-rain attempt fails
Switch_checkCurrentRain_Error(c, error) ==
  /\ c \in Pending /\ c.pc = "request" /\ c.src = "current_rain"
  /\ Switch_CatchCurrentRain(c, NoBody, error)
  /\ UNCHANGED <<config, orphanTimers, accessoryLookup, currentRainState, previousRainState,
                 isPolling, pollingIntervals, launched>>

\* a backoff timer after which the attempt number is doubled
Switch_Wake_Doubles(c) ==
  /\ c \in Pending /\ c.pc = "sleep"
  /\ cycles' = Becomes(c, Cycle(c.src, "request", 2 * (c.retryCount + 1), 0, c.worst))
  /\ event' = NoEvent
  /\ UNCHANGED <<config, orphanTimers, accessoryLookup, currentRainState, previousRainState,
                 isPolling, pollingIntervals, launched, switchOn, log>>

\* the backoff timer fires: return this.checkCurrentRain(..., retryCount + 1)
Switch_Wake(c) ==
  /\ c \in Pending /\ c.pc = "sleep"
  /\ cycles' = Becomes(c, Cycle(c.src, "request", c.retryCount + 1, 0, c.worst))
  /\ event' = NoEvent
  /\ UNCHANGED <<config, orphanTimers, accessoryLookup, currentRainState, previousRainState,
                 isPolling, pollingIntervals, launched, switchOn, log>>

\* rain_threshold || 0.1, in hundredths
RainThreshold ==
  IF config.previous_rain.rain_threshold # 0
  THEN config.previous_rain.rain_threshold ELSE 10

RECURSIVE TotalRainfall(_)
\* totalRainfall of the switch's checkPreviousRain: every numeric value counts
TotalRainfall(data) ==
  IF data = <<>> THEN 0
  ELSE (IF IsNumeric(Head(data).value) THEN Head(data).value.n ELSE 0)
       + TotalRainfall(Tail(data))

\* the request of a previous-rain cycle is answered with a body
Switch_checkPreviousRain_Body(c, body) ==
  /\ c \in Pending /\ c.pc = "request" /\ c.src = "previous_rain"
  /\ Switch_Update(c, body,
       Bool((IF body.hasData THEN TotalRainfall(body.data) ELSE 0) >= RainThreshold))
  /\ UNCHANGED <<config, orphanTimers, accessoryLookup, currentRainState, previousRainState,
                 isPolling, pollingIntervals, launched>>

\* the request of a previous-rain cycle fails: logged, not retried
Switch_checkPreviousRain_Error(c, error) ==
  /\ c \in Pending /\ c.pc = "request" /\ c.src = "previous_rain"
  /\ cycles' = Ended(c)
  /\ event' = Attempt("previous_rain", c, "failed", NoBody, error, "none", {})
  /\ UNCHANGED <<config, orphanTimers, accessoryLookup, currentRainState, previousRainState,
                 isPolling, pollingIntervals, launched, switchOn, log>>

\* clearInterval on every recorded timer
Switch_unload ==
  /\ pollingIntervals' = [s \in Sources |-> 0]
  /\ event' = NoEvent
  /\ UNCHANGED <<config, orphanTimers, accessoryLookup, currentRainState, previousRainState,
                 isPolling, cycles, launched, switchOn, log>>

NextRetry ==
  \/ didFinishLaunching
  \/ \E s \in Sources : Switch_Tick(s)
  \/ \E c \in Pending, body \in ObservationBodies : Switch_checkCurrentRain_Body(c, body)
  \/ \E c \in Pending, error \in AxiosErrors : Switch_checkCurrentRain_Error(c, error)
  \/ \E c \in Pending : Switch_Wake(c)
  \/ \E c \in Pending, body \in RainfallBodies : Switch_checkPreviousRain_Body(c, body)
  \/ \E c \in Pending, error \in AxiosErrors : Switch_checkPreviousRain_Error(c, error)
  \/ Switch_unload

SpecRetry == Init /\ [][NextRetry]_vars

----------------------------------------------------------------------------
(* The switch implementation when initializeSwitches() is called again *)

\* the orphan timers a source may collect
MaxOrphanTimers == 1

\* the armed timers of source s, recorded or not
Timers(s) == (IF pollingIntervals[s] # 0 THEN 1 ELSE 0) + orphanTimers[s]

\* this.pollingIntervals[accessory.UUID] = intervalId for each started source:
\* the id stored before is overwritten while its timer goes on
Overwritten(started) ==
  [s \in Sources |-> IF s \in started /\ pollingIntervals[s] # 0
                     THEN orphanTimers[s] + 1 ELSE orphanTimers[s]]

\* A further call of initializeSwitches(). It tests nothing before it creates
\* the switches and starts their polling. registerPlatformAccessories is the
\* host's: where the host refuses an accessory whose UUID it already holds,
\* the call throws at the first switch, and where it accepts, polling starts.
\* The switches of one source share the name and are kept as one On value.
initializeSwitches(accepted) ==
  /\ launched
  /\ Configured # {}
  /\ IF accepted
     THEN /\ Room(cycles) >= Cardinality(Configured)
          /\ \A s \in Sources : Overwritten(Configured)[s] <= MaxOrphanTimers
          /\ orphanTimers' = Overwritten(Configured)
          /\ pollingIntervals' = ArmTimers(Configured)
          /\ cycles' = InitialChecks(Configured)
     ELSE UNCHANGED <<orphanTimers, pollingIntervals, cycles>>
  /\ event' = NoEvent
  /\ UNCHANGED <<config, accessoryLookup, currentRainState, previousRainState,
                 isPolling, launched, switchOn, log>>

\* an interval timer of source s fires whose id is no longer recorded
Orphan_Tick(s) ==
  /\ orphanTimers[s] > 0
  /\ s = "current_rain" => InFlight(s) * CheckIntervalMs(s) < Switch_MaxCycleMs
  /\ Room(cycles) >= 1
  /\ cycles' = NewCycle(cycles, s)
  /\ event' = NoEvent
  /\ UNCHANGED <<config, orphanTimers, accessoryLookup, currentRainState,
                 previousRainState, isPolling, pollingIntervals, launched,
                 switchOn, log>>

NextAgain ==
  \/ didFinishLaunching
  \/ \E accepted \in BOOLEAN : initializeSwitches(accepted)
  \/ \E s \in Sources : Switch_Tick(s)
  \/ \E s \in Sources : Orphan_Tick(s)
  \/ \E c \in Pending, body \in ObservationBodies : Switch_checkCurrentRain_Body(c, body)
  \/ \E c \in Pending, error \in AxiosErrors : Switch_checkCurrentRain_Error(c, error)
  \/ \E c \in Pending : Switch_Wake(c)
  \/ \E c \in Pending, body \in RainfallBodies : Switch_checkPreviousRain_Body(c, body)
  \/ \E c \in Pending, error \in AxiosErrors : Switch_checkPreviousRain_Error(c, error)
  \/ Switch_unload

SpecAgain == Init /\ [][NextAgain]_vars

----------------------------------------------------------------------------
(* The switch implementation with the set requests of the accessory platform *)

\* onCharacteristic.on('set', (value, callback) => { log.warn(...); callback(); }):
\* the handler reports the write as done, without an error, so the On
\* characteristic holds the value written
Switch_set(s, value) ==
  /\ launched /\ s \in Configured
  /\ switchOn' = [switchOn EXCEPT ![s] = value]
  /\ event' = NoEvent
  /\ UNCHANGED <<config, orphanTimers, accessoryLookup, currentRainState,
                 previousRainState, isPolling, pollingIntervals, cycles,
                 launched, log>>

NextSet ==
  \/ didFinishLaunching
  \/ \E s \in Sources, value \in {"true", "false"} : Switch_set(s, value)
  \/ \E s \in Sources : Switch_Tick(s)
  \/ \E c \in Pending, body \in ObservationBodies : Switch_checkCurrentRain_Body(c, body)
  \/ \E c \in Pending, error \in AxiosErrors : Switch_checkCurrentRain_Error(c, error)
  \/ \E c \in Pending : Switch_Wake(c)
  \/ \E c \in Pending, body \in RainfallBodies : Switch_checkPreviousRain_Body(c, body)
  \/ \E c \in Pending, error \in AxiosErrors : Switch_checkPreviousRain_Error(c, error)
  \/ Switch_unload

\* the configurations with one switch
InitSet == Init /\ Cardinality(Configured) = 1

SpecSet == InitSet /\ [][NextSet]_vars

----------------------------------------------------------------------------
(* The platform-level implementation, one fetch per source, over wide inputs *)

\* the longest generated weather description
MaxDescriptionLen == 3

DescriptionAlphabet == {"R", "a", "A", "d", "z", "b", "F", "g", "x", " "}

Str_Fog == <<"F","o","g">>
Str_Mist == <<"M","i","s","t">>
Str_Showers == <<"S","h","o","w","e","r","s">>
Str_Drizzle == <<"D","r","i","z","z","l","e">>
Str_Cloudy == <<"C","l","o","u","d","y">>
Str_Thunderstorm == <<"T","h","u","n","d","e","r","s","t","o","r","m">>

\* the textDescription values the upstream answers with
Descriptions ==
  (UNION {[1..n -> DescriptionAlphabet] : n \in 1..MaxDescriptionLen})
  \cup {Str_LightRain, Str_Sunny, Str_Fog, Str_Mist, Str_Showers, Str_Drizzle,
        Str_Cloudy, Str_Thunderstorm}

DeriveObservationBodies ==
  ObservationBodies \cup {Observation(TRUE, Text("string", d)) : d \in Descriptions}

\* the daily values of an answer: null, not a number, or hundredths of an inch
DailyValues ==
  {Value("null", 0), Value("nan", 0), Value("num", 0), Value("num", 5),
   Value("num", 8), Value("num", 10)}

\* three-day answers, and four-day answers that also carry a value dated today
DeriveRainfallBodies ==
  RainfallBodies
  \cup {Rainfall(TRUE, <<Day(-3, v3), Day(-2, v2), Day(-1, v1)>>) :
          v3 \in {Value("num", 0), Value("num", 10)}, v2 \in DailyValues, v1 \in DailyValues}
  \cup {Rainfall(TRUE, <<Day(-2, v2), Day(-1, v1), Day(0, v0)>>) :
          v2 \in DailyValues, v1 \in DailyValues, v0 \in {Value("num", 10)}}

\* one source each; thresholds omitted (defaults), equal, and explicit
DeriveConfigs ==
  { [current_rain |-> Section(TRUE, TRUE, 0, 0, 0), previous_rain |-> NoSection] }
  \cup { [current_rain |-> NoSection, previous_rain |-> Section(TRUE, TRUE, 0, d, t)] :
           d \in {0, 10}, t \in {0, 10, 13} }

InitDerive ==
  /\ config \in DeriveConfigs
  /\ accessoryLookup = {}
  /\ currentRainState = "false"
  /\ previousRainState = "false"
  /\ isPolling = FALSE
  /\ pollingIntervals = [s \in Sources |-> 0]
  /\ cycles = EmptyBag
  /\ launched = FALSE
  /\ switchOn = [s \in Sources |-> "false"]
  /\ event = NoEvent
  /\ log = [s \in Sources |-> <<>>]
  /\ orphanTimers = [s \in Sources |-> 0]

NextDerive ==
  \/ accessories
  \/ \E c \in Pending, body \in DeriveObservationBodies : checkCurrentRain_Body(c, body)
  \/ \E c \in Pending, body \in DeriveRainfallBodies : checkPreviousRain_Body(c, body)

SpecDerive == InitDerive /\ [][NextDerive]_vars

----------------------------------------------------------------------------
(* The platform's parsing loop over answers of any shape: rows in any order,
   a date listed more than once, dates outside the range asked for *)

\* the number of rows of an answer
MaxRows == 3

\* the dates of a row: four days ago (before the range) to today (after it)
RowDates == -4..0

RowValues == {Value("null", 0), Value("num", 0), Value("num", 5), Value("num", 10)}

Rows == {Day(date, value) : date \in RowDates, value \in RowValues}

\* the sequences of n rows
RowSeqs(n) == [1..n -> Rows]

\* the answers of one to MaxRows rows
AnyRainfallBodies ==
  {Rainfall(TRUE, data) : data \in UNION {RowSeqs(n) : n \in 1..MaxRows}}

\* the request of a previous-rain cycle is answered with a body
Rows_checkPreviousRain_Body(c, body) ==
  /\ c \in Pending /\ c.pc = "request" /\ c.src = "previous_rain"
  /\ LET sums == RainSums(body)
         newState == IF \/ sums.previousDayRain >= PreviousDayThreshold
                        \/ sums.twoDayRain >= TwoDayThreshold
                     THEN "1" ELSE "0"
         notified == IF previousRainState # newState THEN updateAllAccessories ELSE {}
     IN  /\ previousRainState' = newState
         /\ event' = Attempt("previous_rain", c, "success", body, NoError,
                             newState, notified)
                       @@ [windows |-> sums]
         /\ log' = Logged("previous_rain", newState, notified # {})
  /\ cycles' = Ended(c)
  /\ UNCHANGED <<config, orphanTimers, accessoryLookup, currentRainState, isPolling,
                 pollingIntervals, launched, switchOn>>

NextRows ==
  \/ accessories
  \/ \E c \in Pending, body \in DeriveObservationBodies : checkCurrentRain_Body(c, body)
  \/ \E c \in Pending, body \in AnyRainfallBodies : Rows_checkPreviousRain_Body(c, body)

\* the thresholds play no part in the sums: the default ones
InitRows == InitDerive /\ config.previous_rain.two_day_threshold = 0

SpecRows == InitRows /\ [][NextRows]_vars

----------------------------------------------------------------------------
(* The platform's derivation on different days: the dates of an answer are
   counted from one fixed day, and a check runs on that day or later *)

\* the latest day a check runs, in days after the day the dates are counted from
MaxDay == 1

Days == 0..MaxDay

\* a pending checkPreviousRain that was called on the local day today, with
\* the dates it built from now.getFullYear(), getMonth() and getDate() - 1,
\* - 2 and - 3, formatted from the same local components
LocalCycle(today) ==
  [src |-> "previous_rain", pc |-> "request", retryCount |-> 0, delay |-> 0,
   worst |-> "none", today |-> today, localYesterdayStr |-> today - 1,
   localDayBeforeYesterdayStr |-> today - 2, localThreeDaysAgoStr |-> today - 3]

\* the body of the for loop over response.data.data, for the dates of call c
LocalParseDay(c, sums, day) ==
  IF IsNumeric(day.value)
  THEN [previousDayRain |->
          IF day.date = c.localYesterdayStr THEN day.value.n
          ELSE sums.previousDayRain,
        twoDayRain |->
          IF day.date \in {c.localYesterdayStr, c.localDayBeforeYesterdayStr}
          THEN sums.twoDayRain + day.value.n ELSE sums.twoDayRain,
        threeDayRain |->
          IF day.date \in {c.localYesterdayStr, c.localDayBeforeYesterdayStr,
                           c.localThreeDaysAgoStr}
          THEN sums.threeDayRain + day.value.n ELSE sums.threeDayRain]
  ELSE sums

RECURSIVE LocalParseDays(_, _, _)
LocalParseDays(c, sums, data) ==
  IF data = <<>> THEN sums
  ELSE LocalParseDays(c, LocalParseDay(c, sums, Head(data)), Tail(data))

\* the window sums of call c after the loop
LocalRainSums(c, body) ==
  IF body.hasData THEN LocalParseDays(c, NoRain, body.data) ELSE NoRain

\* Homebridge asks for the accessories on the local day today
Clock_accessories(today) ==
  /\ ~isPolling
  /\ accessoryLookup' = {s \in Sources : config[s].present}
  /\ isPolling' = TRUE
  /\ pollingIntervals' = ArmTimers(Polled)
  /\ cycles' =
       (IF "current_rain" \in Polled THEN NewCycle(cycles, "current_rain") ELSE cycles)
       (+) (IF "previous_rain" \in Polled THEN SetToBag({LocalCycle(today)})
            ELSE EmptyBag)
  /\ event' = NoEvent
  /\ UNCHANGED <<config, orphanTimers, currentRainState, previousRainState,
                 launched, switchOn, log>>

\* the request of a previous-rain cycle is answered with a body
Clock_checkPreviousRain_Body(c, body) ==
  /\ c \in Pending /\ c.pc = "request" /\ c.src = "previous_rain"
  /\ LET sums == LocalRainSums(c, body)
         compared == sums.twoDayRain
         newState == IF \/ sums.previousDayRain >= PreviousDayThreshold
                        \/ compared >= TwoDayThreshold
                     THEN "1" ELSE "0"
         notified == IF previousRainState # newState THEN updateAllAccessories ELSE {}
     IN  /\ previousRainState' = newState
         /\ event' = Attempt("previous_rain", c, "success", body, NoError,
                             newState, notified)
                       @@ [today |-> c.today, sums |-> sums, compared |-> compared]
         /\ log' = Logged("previous_rain", newState, notified # {})
  /\ cycles' = Ended(c)
  /\ UNCHANGED <<config, orphanTimers, accessoryLookup, currentRainState, isPolling,
                 pollingIntervals, launched, switchOn>>

NextClock ==
  \/ \E today \in Days : Clock_accessories(today)
  \/ \E c \in Pending, body \in DeriveObservationBodies : checkCurrentRain_Body(c, body)
  \/ \E c \in Pending, body \in DeriveRainfallBodies : Clock_checkPreviousRain_Body(c, body)

SpecClock == InitDerive /\ [][NextClock]_vars

----------------------------------------------------------------------------
(* Calendar days as the UTC-formatting implementations compute them *)

\* the moment of a call as the process sees it: the local hour of the day and
\* the offset of local time from UTC, in hours
Instant(hour, offset) == [hour |-> hour, offset |-> offset]

Instants == {Instant(3, 0), Instant(22, -5), Instant(3, 9)}

\* date.toISOString().split('T')[0] for a Date that lies localDay days from the
\* local today at the local time of now: the UTC calendar day of that moment,
\* counted like every date of the model from the local today
toISODate(localDay, now) == localDay + ((now.hour - now.offset) \div 24)

\* the windows summed by the loops that know two days
NoTwoDayRain == [previousDayRain |-> 0, twoDayRain |-> 0]

\* the body of the for loop over response.data.data, for a call that computed
\* yStr and dbyStr as yesterdayStr and dayBeforeYesterdayStr
TwoDayParseDay(yStr, dbyStr, sums, day) ==
  IF IsNumeric(day.value)
  THEN [previousDayRain |->
          IF day.date = yStr THEN day.value.n ELSE sums.previousDayRain,
        twoDayRain |->
          IF day.date \in {yStr, dbyStr}
          THEN sums.twoDayRain + day.value.n ELSE sums.twoDayRain]
  ELSE sums

RECURSIVE TwoDayParseDays(_, _, _, _)
TwoDayParseDays(yStr, dbyStr, sums, data) ==
  IF data = <<>> THEN sums
  ELSE TwoDayParseDays(yStr, dbyStr, TwoDayParseDay(yStr, dbyStr, sums, Head(data)),
                       Tail(data))

\* the window sums after the loop
TwoDayRainSums(yStr, dbyStr, body) ==
  IF body.hasData THEN TwoDayParseDays(yStr, dbyStr, NoTwoDayRain, body.data)
  ELSE NoTwoDayRain

\* a pending checkPreviousRain with the dates it computed before its request
DatedCycle(s, now) ==
  [src |-> s, pc |-> "request", retryCount |-> 0, delay |-> 0, worst |-> "none",
   yesterdayStr |-> toISODate(-1, now), dayBeforeYesterdayStr |-> toISODate(-2, now)]

\* a call of check...Rain() at the moment now runs up to its first await
NewDatedCycle(cs, s, now) ==
  cs (+) SetToBag({IF s = "previous_rain" THEN DatedCycle(s, now)
                   ELSE Cycle(s, "request", 0, 0, "none")})

\* the initial checks of the sources started, all at the moment now
InitialDatedChecks(started, now) ==
  LET cs1 == IF "current_rain" \in started
             THEN NewDatedCycle(cycles, "current_rain", now) ELSE cycles
  IN  IF "previous_rain" \in started
      THEN NewDatedCycle(cs1, "previous_rain", now) ELSE cs1

----------------------------------------------------------------------------
(* The per-accessory sensor implementation (src/unnamed/part_001, 1-375) *)

SensorConfigs ==
  { [current_rain |-> Section(TRUE, TRUE, 0, 0, 0),
     previous_rain |-> Section(TRUE, TRUE, 0, 0, 0)],
    [current_rain |-> NoSection,
     previous_rain |-> Section(TRUE, TRUE, 0, 10, 13)] }

\* the fields are unset until the sensors are created; a fresh characteristic
\* holds 0
InitSensor ==
  /\ config \in SensorConfigs
  /\ accessoryLookup = {}
  /\ currentRainState = "undefined"
  /\ previousRainState = "undefined"
  /\ isPolling = FALSE
  /\ pollingIntervals = [s \in Sources |-> 0]
  /\ cycles = EmptyBag
  /\ launched = FALSE
  /\ switchOn = [s \in Sources |-> "0"]
  /\ event = NoEvent
  /\ log = [s \in Sources |-> <<>>]
  /\ orphanTimers = [s \in Sources |-> 0]

\* updateData(): getValue() on every bound characteristic, whose getters
\* return this.currentRainState and this.previousRainState ? 1 : 0
Sensor_updateData(current, previous) ==
  [s \in Sources |->
     IF s \notin Configured THEN switchOn[s]
     ELSE IF s = "current_rain" THEN current
     ELSE IF previous = "true" THEN "1" ELSE "0"]

\* Homebridge reports that it has finished launching: initializeSwitches()
Sensor_didFinishLaunching(now) ==
  /\ ~launched
  /\ Room(cycles) >= Cardinality(Configured)
  /\ launched' = TRUE
  /\ currentRainState' =
       IF "current_rain" \in Configured THEN "false" ELSE currentRainState
  /\ previousRainState' =
       IF "previous_rain" \in Configured THEN "false" ELSE previousRainState
  /\ pollingIntervals' = ArmTimers(Configured)
  /\ cycles' = InitialDatedChecks(Configured, now)
  /\ event' = NoEvent
  /\ UNCHANGED <<config, orphanTimers, accessoryLookup, isPolling, switchOn, log>>

\* an interval timer of source s fires at the moment now
Sensor_Tick(s, now) ==
  /\ CanFire(s, Switch_MaxCycleMs)
  /\ Room(cycles) >= 1
  /\ cycles' = NewDatedCycle(cycles, s, now)
  /\ event' = NoEvent
  /\ UNCHANGED <<config, orphanTimers, accessoryLookup, currentRainState, previousRainState,
                 isPolling, pollingIntervals, launched, switchOn, log>>

\* the request of a current-rain attempt is answered with a body
Sensor_checkCurrentRain_Body(c, body) ==
  /\ c \in Pending /\ c.pc = "request" /\ c.src = "current_rain"
  /\ IF ValidateObservation(body) # NoError
     THEN /\ Switch_CatchCurrentRain(c, body, ValidateObservation(body))
          /\ UNCHANGED currentRainState
     ELSE LET isRainingNow == Bool(isRaining(toLowerCase(body.textDescription.chars)))
          IN  \* this.currentRainState = isRaining; then forced to false
              /\ currentRainState' = "false"
              /\ switchOn' = Sensor_updateData("false", previousRainState)
              /\ cycles' = Ended(c)
              /\ event' = Attempt("current_rain", c, "success", body, NoError,
                                  isRainingNow, Configured)
              /\ log' = Logged("current_rain", isRainingNow, TRUE)
  /\ UNCHANGED <<config, orphanTimers, accessoryLookup, previousRainState, isPolling,
                 pollingIntervals, launched>>

\* the warnings the sensor's loop logs for an answer: one log.warn for every
\* value that is not null and does not parse
Sensor_Warnings(body) ==
  Cardinality({k \in 1..Len(body.data) : body.data[k].value.kind = "nan"})

\* newState of the sensor's checkPreviousRain
Sensor_NewState(sums) ==
  Bool(\/ sums.previousDayRain > PreviousDayThreshold
       \/ sums.twoDayRain > TwoDayThreshold)

\* the request of a previous-rain cycle is answered with a body
Sensor_checkPreviousRain_Body(c, body) ==
  /\ c \in Pending /\ c.pc = "request" /\ c.src = "previous_rain"
  /\ LET newState ==
           Sensor_NewState(TwoDayRainSums(c.yesterdayStr, c.dayBeforeYesterdayStr, body))
     IN  \* this.previousRainState = newState; then forced to true
         /\ previousRainState' = "true"
         /\ switchOn' = Sensor_updateData(currentRainState, "true")
         /\ cycles' = Ended(c)
         /\ event' = Attempt("previous_rain", c, "success", body, NoError,
                             newState, Configured)
                       @@ [warnings |-> Sensor_Warnings(body)]
         /\ log' = Logged("previous_rain", newState, TRUE)
  /\ UNCHANGED <<config, orphanTimers, accessoryLookup, currentRainState, isPolling,
                 pollingIntervals, launched>>

NextSensor ==
  \/ \E now \in Instants : Sensor_didFinishLaunching(now)
  \/ \E s \in Sources, now \in Instants : Sensor_Tick(s, now)
  \/ \E c \in Pending, body \in ObservationBodies : Sensor_checkCurrentRain_Body(c, body)
  \/ \E c \in Pending, error \in AxiosErrors : Switch_checkCurrentRain_Error(c, error)
  \/ \E c \in Pending : Switch_Wake(c)
  \/ \E c \in Pending, body \in RainfallBodies : Sensor_checkPreviousRain_Body(c, body)
  \/ \E c \in Pending, error \in AxiosErrors : Switch_checkPreviousRain_Error(c, error)
  \/ Switch_unload

SpecSensor == InitSensor /\ [][NextSensor]_vars

----------------------------------------------------------------------------
(* The Rain Switch implementation: one switch, one StnData request per check.
   Its flat configuration is kept in the previous_rain section. *)

RainSwitchConfigs ==
  { [current_rain |-> NoSection, previous_rain |-> Section(TRUE, TRUE, 0, d, 0)] :
      d \in {0, 10, 15} }

InitRainSwitch ==
  /\ config \in RainSwitchConfigs
  /\ accessoryLookup = {}
  /\ currentRainState = "undefined"
  /\ previousRainState = "undefined"
  /\ isPolling = FALSE
  /\ pollingIntervals = [s \in Sources |-> 0]
  /\ orphanTimers = [s \in Sources |-> 0]
  /\ cycles = EmptyBag
  /\ launched = FALSE
  /\ switchOn = [s \in Sources |-> "false"]
  /\ event = NoEvent
  /\ log = [s \in Sources |-> <<>>]

\* a pending checkRainfall with the range it asked for: endDate = new Date(),
\* startDate = endDate - 24 h, both formatted by toISOString
RangeCycle(now) ==
  [src |-> "previous_rain", pc |-> "request", retryCount |-> 0, delay |-> 0,
   worst |-> "none", sdate |-> toISODate(-1, now), edate |-> toISODate(0, now)]

\* the answers to a request for sdate..edate: one value per day of the range,
\* a day still to come without a number; or an answer without data
RangeBodies(sdate, edate) ==
  { Rainfall(TRUE, <<Day(sdate, v1), Day(edate, v2)>>) :
      v1 \in {v \in DailyValues : sdate <= 0 \/ ~IsNumeric(v)},
      v2 \in {v \in DailyValues : edate <= 0 \/ ~IsNumeric(v)} }
  \cup {Rainfall(FALSE, <<>>)}

\* didFinishLaunching: createSwitch() and startPolling(), whose setInterval
\* id is kept nowhere
RainSwitch_didFinishLaunching(now) ==
  /\ ~launched
  /\ launched' = TRUE
  /\ accessoryLookup' = {"previous_rain"}
  /\ cycles' = cycles (+) SetToBag({RangeCycle(now)})
  /\ orphanTimers' = [orphanTimers EXCEPT !["previous_rain"] = 1]
  /\ event' = NoEvent
  /\ UNCHANGED <<config, currentRainState, previousRainState, isPolling,
                 pollingIntervals, switchOn, log>>

\* the interval timer fires
RainSwitch_Tick(now) ==
  /\ orphanTimers["previous_rain"] > 0
  /\ Room(cycles) >= 1
  /\ cycles' = cycles (+) SetToBag({RangeCycle(now)})
  /\ event' = NoEvent
  /\ UNCHANGED <<config, orphanTimers, accessoryLookup, currentRainState,
                 previousRainState, isPolling, pollingIntervals, launched,
                 switchOn, log>>

\* the request of a checkRainfall is answered with a body
RainSwitch_checkRainfall_Body(c, body) ==
  /\ c \in Pending /\ c.pc = "request" /\ "edate" \in DOMAIN c
  /\ LET totalRainfall == IF body.hasData THEN TotalRainfall(body.data) ELSE 0
         newState == Bool(totalRainfall >= RainThreshold)
         currentState == switchOn["previous_rain"]
         notified == IF currentState # newState THEN {"previous_rain"} ELSE {}
     IN  /\ switchOn' = IF currentState # newState
                        THEN [switchOn EXCEPT !["previous_rain"] = newState]
                        ELSE switchOn
         /\ event' = Attempt("previous_rain", c, "success", body, NoError,
                             newState, notified)
                       @@ [range |-> <<c.sdate, c.edate>>, total |-> totalRainfall]
         /\ log' = Logged("previous_rain", newState, notified # {})
  /\ cycles' = Ended(c)
  /\ UNCHANGED <<config, orphanTimers, accessoryLookup, currentRainState,
                 previousRainState, isPolling, pollingIntervals, launched>>

\* the request of a checkRainfall fails: logged
RainSwitch_checkRainfall_Error(c, error) ==
  /\ c \in Pending /\ c.pc = "request" /\ "edate" \in DOMAIN c
  /\ cycles' = Ended(c)
  /\ event' = Attempt("previous_rain", c, "failed", NoBody, error, "none", {})
  /\ UNCHANGED <<config, orphanTimers, accessoryLookup, currentRainState,
                 previousRainState, isPolling, pollingIntervals, launched,
                 switchOn, log>>

NextRainSwitch ==
  \/ \E now \in Instants : RainSwitch_didFinishLaunching(now)
  \/ \E now \in Instants : RainSwitch_Tick(now)
  \/ \E c \in Pending :
       \E body \in RangeBodies(c.sdate, c.edate) : RainSwitch_checkRainfall_Body(c, body)
  \/ \E c \in Pending, error \in AxiosErrors : RainSwitch_checkRainfall_Error(c, error)

SpecRainSwitch == InitRainSwitch /\ [][NextRainSwitch]_vars

----------------------------------------------------------------------------
(* The switch implementation with the date range its previous-rain check
   asks for (src/index.js, 548-609) *)

\* a pending checkPreviousRain with its request body: endDate = todayDate - 24 h,
\* startDate = endDate - 48 h, both formatted by toISOString
RequestCycle(now) ==
  Cycle("previous_rain", "request", 0, 0, "none")
    @@ [sdate |-> toISODate(-3, now), edate |-> toISODate(-1, now)]

\* the amounts a station reports for one day
RequestValues == {Value("null", 0), Value("num", 8)}

RECURSIVE RequestDays(_, _)
\* the rows of an answer to sdate..edate: one per day of the range, a day
\* still to come without a number
RequestDays(sdate, edate) ==
  IF sdate > edate THEN {<<>>}
  ELSE { <<Day(sdate, v)>> \o rest :
           v \in {w \in RequestValues : sdate <= 0 \/ ~IsNumeric(w)},
           rest \in RequestDays(sdate + 1, edate) }

\* the answers to a request for sdate..edate, or an answer without data
RequestBodies(sdate, edate) ==
  {Rainfall(TRUE, data) : data \in RequestDays(sdate, edate)}
  \cup {Rainfall(FALSE, <<>>)}

\* initializeSwitches(): both switches are created, their timers recorded and
\* their first checks called
Request_didFinishLaunching(now) ==
  /\ ~launched
  /\ Room(cycles) >= Cardinality(Configured)
  /\ launched' = TRUE
  /\ pollingIntervals' = ArmTimers(Configured)
  /\ cycles' = InitialChecks(Configured \ {"previous_rain"})
                 (+) (IF "previous_rain" \in Configured
                      THEN SetToBag({RequestCycle(now)}) ELSE EmptyBag)
  /\ event' = NoEvent
  /\ UNCHANGED <<config, orphanTimers, accessoryLookup, currentRainState,
                 previousRainState, isPolling, switchOn, log>>

\* the interval timer of the previous-rain switch fires
Request_Tick(now) ==
  /\ CanFire("previous_rain", Switch_MaxCycleMs)
  /\ Room(cycles) >= 1
  /\ cycles' = cycles (+) SetToBag({RequestCycle(now)})
  /\ event' = NoEvent
  /\ UNCHANGED <<config, orphanTimers, accessoryLookup, currentRainState,
                 previousRainState, isPolling, pollingIntervals, launched,
                 switchOn, log>>

\* the request of a checkPreviousRain is answered with a body
Request_checkPreviousRain_Body(c, body) ==
  /\ c \in Pending /\ c.pc = "request" /\ "sdate" \in DOMAIN c
  /\ LET totalRainfall == IF body.hasData THEN TotalRainfall(body.data) ELSE 0
         newState == Bool(totalRainfall >= RainThreshold)
         currentState == switchOn["previous_rain"]
         notified == IF currentState # newState THEN {"previous_rain"} ELSE {}
     IN  /\ switchOn' = IF currentState # newState
                        THEN [switchOn EXCEPT !["previous_rain"] = newState]
                        ELSE switchOn
         /\ event' = Attempt("previous_rain", c, "success", body, NoError,
                             newState, notified)
                       @@ [range |-> <<c.sdate, c.edate>>, total |-> totalRainfall,
                           threshold |-> RainThreshold]
         /\ log' = Logged("previous_rain", newState, notified # {})
  /\ cycles' = Ended(c)
  /\ UNCHANGED <<config, orphanTimers, accessoryLookup, currentRainState,
                 previousRainState, isPolling, pollingIntervals, launched>>

NextRequest ==
  \/ \E now \in Instants : Request_didFinishLaunching(now)
  \/ Switch_Tick("current_rain")
  \/ \E now \in Instants : Request_Tick(now)
  \/ \E c \in Pending, body \in ObservationBodies : Switch_checkCurrentRain_Body(c, body)
  \/ \E c \in Pending, error \in AxiosErrors : Switch_checkCurrentRain_Error(c, error)
  \/ \E c \in Pending : Switch_Wake(c)
  \/ \E c \in Pending :
       "sdate" \in DOMAIN c /\
       \E body \in RequestBodies(c.sdate, c.edate) : Request_checkPreviousRain_Body(c, body)
  \/ \E c \in Pending, error \in AxiosErrors : Switch_checkPreviousRain_Error(c, error)
  \/ Switch_unload

InitRequest == Init /\ config.previous_rain.present

SpecRequest == InitRequest /\ [][NextRequest]_vars

----------------------------------------------------------------------------
(* The platform-level implementation that reads the forecast of a point
   (src/index.js, 1-367) *)

ForecastConfigs ==
  { [current_rain |-> Section(TRUE, TRUE, 0, 0, 0),
     previous_rain |-> Section(TRUE, TRUE, 0, 10, 25)],
    [current_rain |-> Section(TRUE, TRUE, 0, 0, 0), previous_rain |-> NoSection],
    [current_rain |-> NoSection, previous_rain |-> Section(TRUE, TRUE, 0, 0, 0)] }

InitForecast ==
  /\ config \in ForecastConfigs
  /\ accessoryLookup = {}
  /\ currentRainState = "false"
  /\ previousRainState = "false"
  /\ isPolling = FALSE
  /\ pollingIntervals = [s \in Sources |-> 0]
  /\ orphanTimers = [s \in Sources |-> 0]
  /\ cycles = EmptyBag
  /\ launched = FALSE
  /\ switchOn = [s \in Sources |-> "false"]
  /\ event = NoEvent
  /\ log = [s \in Sources |-> <<>>]

\* the body of a forecast answer: properties.periods[0].shortForecast
Forecast(properties, periods, shortForecast) ==
  [properties |-> properties, periods |-> periods, shortForecast |-> shortForecast]

ForecastBodies ==
  { Forecast(FALSE, 0, Text("missing", <<>>)),
    Forecast(TRUE, 0, Text("missing", <<>>)),
    Forecast(TRUE, 1, Text("missing", <<>>)),
    Forecast(TRUE, 1, Text("string", <<>>)),
    Forecast(TRUE, 1, Text("string", Str_LightRain)),
    Forecast(TRUE, 1, Text("string", Str_Sunny)) }

\* data.properties && data.properties.periods && periods.length > 0 &&
\* periods[0].shortForecast && shortForecast.toLowerCase().includes('rain'):
\* the first falsy operand, or the last one
Forecast_isRaining(body) ==
  IF ~body.properties THEN "undefined"
  ELSE IF body.periods = 0 THEN "false"
  ELSE IF body.shortForecast.kind = "missing" THEN "undefined"
  ELSE IF body.shortForecast.chars = <<>> THEN ""
  ELSE Bool(includes(toLowerCase(body.shortForecast.chars), <<"r","a","i","n">>))

\* Homebridge asks for the accessories at the moment now: createAccessories()
\* while there are none, startPlatformPolling() unless polling
Forecast_accessories(now) ==
  /\ accessoryLookup' = IF accessoryLookup = {} THEN Configured ELSE accessoryLookup
  /\ IF isPolling
     THEN UNCHANGED <<isPolling, pollingIntervals, cycles>>
     ELSE /\ Room(cycles) >= Cardinality(Polled)
          /\ isPolling' = TRUE
          /\ pollingIntervals' = ArmTimers(Polled)
          /\ cycles' = InitialDatedChecks(Polled, now)
  /\ event' = NoEvent
  /\ UNCHANGED <<config, orphanTimers, currentRainState, previousRainState,
                 launched, switchOn, log>>

\* an interval timer of source s fires at the moment now
Forecast_Tick(s, now) ==
  /\ pollingIntervals[s] # 0
  /\ Room(cycles) >= 1
  /\ cycles' = NewDatedCycle(cycles, s, now)
  /\ event' = NoEvent
  /\ UNCHANGED <<config, orphanTimers, accessoryLookup, currentRainState,
                 previousRainState, isPolling, pollingIntervals, launched,
                 switchOn, log>>

\* the points request is answered: with properties.forecast the forecast is
\* requested, without properties the read throws into the catch clause
Forecast_checkCurrentRain_Point(c, properties) ==
  /\ c \in Pending /\ c.pc = "request" /\ c.src = "current_rain"
  /\ IF properties
     THEN /\ cycles' = Becomes(c, Cycle(c.src, "forecast", 0, 0, "none"))
          /\ event' = NoEvent
     ELSE /\ cycles' = Ended(c)
          /\ event' = Attempt("current_rain", c, "failed", NoBody, InvalidStructure,
                              "none", {})
  /\ UNCHANGED <<config, orphanTimers, accessoryLookup, currentRainState,
                 previousRainState, isPolling, pollingIntervals, launched,
                 switchOn, log>>

\* the forecast request is answered: the state derived is stored and then
\* overwritten with false, and updateData() is called on every accessory
Forecast_checkCurrentRain_Body(c, body) ==
  /\ c \in Pending /\ c.pc = "forecast" /\ c.src = "current_rain"
  /\ currentRainState' = "false"
  /\ cycles' = Ended(c)
  /\ event' = Attempt("current_rain", c, "success", body, NoError,
                      Forecast_isRaining(body), accessoryLookup)
  /\ log' = Logged("current_rain", Forecast_isRaining(body), accessoryLookup # {})
  /\ UNCHANGED <<config, orphanTimers, accessoryLookup, previousRainState, isPolling,
                 pollingIntervals, launched, switchOn>>

\* one of the two requests of a current-rain check fails: logged
Forecast_checkCurrentRain_Error(c, error) ==
  /\ c \in Pending /\ c.pc \in {"request", "forecast"} /\ c.src = "current_rain"
  /\ cycles' = Ended(c)
  /\ event' = Attempt("current_rain", c, "failed", NoBody, error, "none", {})
  /\ UNCHANGED <<config, orphanTimers, accessoryLookup, currentRainState,
                 previousRainState, isPolling, pollingIntervals, launched,
                 switchOn, log>>

\* sum >= threshold, where the threshold is read from the configuration
\* without a default: against undefined the comparison is false
Forecast_Exceeded(sum, threshold) == threshold # 0 /\ sum >= threshold

\* the sum compared with twoDayThreshold
Forecast_twoDayCompared(sums) == sums.previousDayRain + sums.twoDayRain

\* contactState of checkPreviousRain
Forecast_contactState(sums) ==
  IF \/ Forecast_Exceeded(sums.previousDayRain,
                          config.previous_rain.previous_day_threshold)
     \/ Forecast_Exceeded(Forecast_twoDayCompared(sums),
                          config.previous_rain.two_day_threshold)
  THEN "1" ELSE "0"

\* the answers of StnData: those of the other implementations, and one whose
\* two days stay below both thresholds
ForecastRainfallBodies ==
  RainfallBodies
  \cup {Rainfall(TRUE, <<Day(-3, Value("num", 0)), Day(-2, Value("num", 10)),
                         Day(-1, Value("num", 8))>>)}

\* the StnData request is answered: the state derived is stored and then
\* overwritten with 1, and updateData() is called on every accessory
Forecast_checkPreviousRain_Body(c, body) ==
  /\ c \in Pending /\ c.pc = "request" /\ c.src = "previous_rain"
  /\ LET sums == TwoDayRainSums(c.yesterdayStr, c.dayBeforeYesterdayStr, body)
         contactState == Forecast_contactState(sums)
     IN  /\ previousRainState' = "1"
         /\ event' = Attempt("previous_rain", c, "success", body, NoError,
                             contactState, accessoryLookup)
                       @@ [sums |-> sums, compared |-> Forecast_twoDayCompared(sums)]
         /\ log' = Logged("previous_rain", contactState, accessoryLookup # {})
  /\ cycles' = Ended(c)
  /\ UNCHANGED <<config, orphanTimers, accessoryLookup, currentRainState, isPolling,
                 pollingIntervals, launched, switchOn>>

\* the StnData request fails: logged
Forecast_checkPreviousRain_Error(c, error) ==
  /\ c \in Pending /\ c.pc = "request" /\ c.src = "previous_rain"
  /\ cycles' = Ended(c)
  /\ event' = Attempt("previous_rain", c, "failed", NoBody, error, "none", {})
  /\ UNCHANGED <<config, orphanTimers, accessoryLookup, currentRainState,
                 previousRainState, isPolling, pollingIntervals, launched,
                 switchOn, log>>

NextForecast ==
  \/ \E now \in Instants : Forecast_accessories(now)
  \/ \E s \in Sources, now \in Instants : Forecast_Tick(s, now)
  \/ \E c \in Pending, properties \in BOOLEAN : Forecast_checkCurrentRain_Point(c, properties)
  \/ \E c \in Pending, body \in ForecastBodies : Forecast_checkCurrentRain_Body(c, body)
  \/ \E c \in Pending, error \in AxiosErrors : Forecast_checkCurrentRain_Error(c, error)
  \/ \E c \in Pending, body \in ForecastRainfallBodies :
       Forecast_checkPreviousRain_Body(c, body)
  \/ \E c \in Pending, error \in AxiosErrors : Forecast_checkPreviousRain_Error(c, error)
  \/ unload

SpecForecast == InitForecast /\ [][NextForecast]_vars

----------------------------------------------------------------------------
(* The platform-level implementation with the names of its accessories:
   accessoryLookup is an object keyed by name, whose values
   updateAllAccessories() enumerates *)

Str_CurrentRainStatus ==
  <<"C","u","r","r","e","n","t"," ","R","a","i","n"," ","S","t","a","t","u","s">>
Str_PreviousRainfall ==
  <<"P","r","e","v","i","o","u","s"," ","R","a","i","n","f","a","l","l">>

\* the names a section can carry (<<>>: omitted or empty)
Names == {<<>>, <<"1">>, <<"2">>, <<"0","1">>}

NamedConfigs ==
  { [current_rain |-> Section(TRUE, TRUE, 0, 0, 0) @@ [name |-> n1],
     previous_rain |-> Section(TRUE, TRUE, 0, 0, 0) @@ [name |-> n2]] :
      n1 \in Names, n2 \in Names }

InitNamed ==
  /\ config \in NamedConfigs
  /\ accessoryLookup = <<>>
  /\ currentRainState = "false"
  /\ previousRainState = "false"
  /\ isPolling = FALSE
  /\ pollingIntervals = [s \in Sources |-> 0]
  /\ orphanTimers = [s \in Sources |-> 0]
  /\ cycles = EmptyBag
  /\ launched = FALSE
  /\ switchOn = [s \in Sources |-> "false"]
  /\ event = NoEvent
  /\ log = [s \in Sources |-> <<>>]

DecimalDigits == <<"0","1","2","3","4","5","6","7","8","9">>

DigitValue(ch) == (CHOOSE i \in 1..10 : DecimalDigits[i] = ch) - 1

\* whether a property key is an array index: the canonical decimal form of an
\* integer
IsArrayIndex(key) ==
  /\ key # <<>>
  /\ \A i \in 1..Len(key) : \E d \in 1..10 : DecimalDigits[d] = key[i]
  /\ Len(key) > 1 => key[1] # "0"

RECURSIVE KeyIndex(_)
KeyIndex(key) ==
  IF key = <<>> THEN 0
  ELSE 10 * KeyIndex(SubSeq(key, 1, Len(key) - 1)) + DigitValue(key[Len(key)])

\* object[key] = value: a key the object has keeps its place
SetProperty(object, key, value) ==
  IF \E i \in 1..Len(object) : object[i].key = key
  THEN [i \in 1..Len(object) |->
          IF object[i].key = key THEN [key |-> key, value |-> value] ELSE object[i]]
  ELSE Append(object, [key |-> key, value |-> value])

RECURSIVE IndexProperties(_, _)
\* the properties at positions S of an object, in ascending order of their index
IndexProperties(object, S) ==
  IF S = {} THEN <<>>
  ELSE LET i == CHOOSE i \in S :
                  \A j \in S : KeyIndex(object[i].key) <= KeyIndex(object[j].key)
       IN  <<object[i].value>> \o IndexProperties(object, S \ {i})

RECURSIVE StringProperties(_)
\* the properties whose key is no array index, in the order of their creation
StringProperties(object) ==
  IF object = <<>> THEN <<>>
  ELSE (IF IsArrayIndex(Head(object).key) THEN <<>> ELSE <<Head(object).value>>)
       \o StringProperties(Tail(object))

\* Object.values(object): array indices in ascending order, then the other
\* keys in the order of their creation
ObjectValues(object) ==
  IndexProperties(object, {i \in 1..Len(object) : IsArrayIndex(object[i].key)})
  \o StringProperties(object)

\* config.<section>.name || default
AccessoryName(s) ==
  IF config[s].name # <<>> THEN config[s].name
  ELSE IF s = "current_rain" THEN Str_CurrentRainStatus ELSE Str_PreviousRainfall

\* an accessory instance: its type and its place in the order of creation
NamedAccessory(s, created) == [accessoryType |-> s, created |-> created]

\* createAccessories(): the current rain sensor, then the previous rain sensor
createAccessories ==
  LET first == SetProperty(accessoryLookup, AccessoryName("current_rain"),
                           NamedAccessory("current_rain", 1))
  IN  SetProperty(first, AccessoryName("previous_rain"),
                  NamedAccessory("previous_rain", 2))

\* Homebridge asks for the accessories
Named_accessories ==
  /\ accessoryLookup' = createAccessories
  /\ startPlatformPolling
  /\ event' = NoEvent
  /\ UNCHANGED <<config, orphanTimers, currentRainState, previousRainState,
                 launched, switchOn, log>>

\* updateAllAccessories(): updateData() of every value of accessoryLookup, one
\* after the other
Named_updateAllAccessories == ObjectValues(accessoryLookup)

\* the request of a current-rain cycle is answered with a body
Named_checkCurrentRain_Body(c, body) ==
  /\ c \in Pending /\ c.pc = "request" /\ c.src = "current_rain"
  /\ IF ValidateObservation(body) # NoError
     THEN PlatformCatch(c, body, ValidateObservation(body))
     ELSE LET raining == Bool(isRaining(toLowerCase(body.textDescription.chars)))
              notified == IF currentRainState # raining
                          THEN Named_updateAllAccessories ELSE <<>>
          IN  /\ currentRainState' = raining
              /\ cycles' = Ended(c)
              /\ event' = Attempt("current_rain", c, "success", body, NoError,
                                  raining, notified)
              /\ log' = Logged("current_rain", raining, notified # <<>>)
              /\ UNCHANGED previousRainState
  /\ UNCHANGED <<config, orphanTimers, accessoryLookup, isPolling,
                 pollingIntervals, launched, switchOn>>

\* the request of a previous-rain cycle is answered with a body
Named_checkPreviousRain_Body(c, body) ==
  /\ c \in Pending /\ c.pc = "request" /\ c.src = "previous_rain"
  /\ LET newState == PreviousRainNewState(body)
         notified == IF previousRainState # newState
                     THEN Named_updateAllAccessories ELSE <<>>
     IN  /\ previousRainState' = newState
         /\ cycles' = Ended(c)
         /\ event' = Attempt("previous_rain", c, "success", body, NoError,
                             newState, notified)
         /\ log' = Logged("previous_rain", newState, notified # <<>>)
         /\ UNCHANGED currentRainState
  /\ UNCHANGED <<config, orphanTimers, accessoryLookup, isPolling,
                 pollingIntervals, launched, switchOn>>

NextNamed ==
  \/ Named_accessories
  \/ \E s \in Sources : Tick(s)
  \/ \E c \in Pending, body \in ObservationBodies : Named_checkCurrentRain_Body(c, body)
  \/ \E c \in Pending, error \in AxiosErrors : checkCurrentRain_Error(c, error)
  \/ \E c \in Pending, body \in RainfallBodies : Named_checkPreviousRain_Body(c, body)
  \/ \E c \in Pending, error \in AxiosErrors : checkPreviousRain_Error(c, error)
  \/ unload

SpecNamed == InitNamed /\ [][NextNamed]_vars

----------------------------------------------------------------------------
(* Properties *)

\* C1: for each source, of the first two successful cycles of a job, when both
\* derive the same state, the first invokes the observers and the second
\* does not, whatever the derived state is.
C1_FirstOfTwoEqualCyclesNotifies ==
  \A s \in Sources :
    (Len(log[s]) = 2 /\ log[s][1].derived = log[s][2].derived)
      => (log[s][1].notified /\ ~log[s][2].notified)

\* two successful current-rain cycles have both derived "not raining"
C1_TwoEqualCycles ==
  /\ Len(log.current_rain) = 2
  /\ log.current_rain[1].derived = "false"
  /\ log.current_rain[2].derived = "false"

\* C2: a current-rain cycle of a job without an earlier success, whose first
\* two attempts fail with a transport error and whose third attempt succeeds,
\* ends with the stored state equal to the state derived, invokes the
\* observers exactly once and has made at most 4 attempts.
C2_ThirdAttemptSucceeds ==
  ( /\ event.src = "current_rain" /\ event.outcome = "success"
    /\ event.attempt = 3 /\ event.worst = "transport"
    /\ Len(log.current_rain) = 1 )
    => /\ switchOn.current_rain = event.derived
       /\ Cardinality(event.notified) = 1
       /\ event.attempt <= 4

\* the third attempt of a first cycle has succeeded after two transport errors
C2_SucceededOnThirdAttempt ==
  /\ event.src = "current_rain" /\ event.outcome = "success"
  /\ event.attempt = 3 /\ event.worst = "transport"
  /\ Len(log.current_rain) = 1

\* C3: a current-rain cycle in which every attempt fails with a retryable
\* error makes exactly 4 attempts: it never gives up before the 4th failure,
\* it sleeps 1000, 2000 and 4000 ms before retry 0, 1 and 2, and no cycle
\* makes a 5th attempt.
C3_FourAttemptsWithBackoff ==
  /\ \A c \in Pending :
       /\ c.retryCount <= 3
       /\ c.pc = "sleep" =>
            \/ c.retryCount = 0 /\ c.delay = 1000
            \/ c.retryCount = 1 /\ c.delay = 2000
            \/ c.retryCount = 2 /\ c.delay = 4000
  /\ ( /\ event.src = "current_rain" /\ event.outcome = "failed"
       /\ event.worst \in {"none", "transport", "retryable"}
       /\ ErrClass(event.error) \in {"transport", "retryable"} )
       => event.attempt = 4

\* a current-rain cycle has given up after four retryable failures
C3_GaveUpAfterFourFailures ==
  /\ event.src = "current_rain" /\ event.outcome = "failed"
  /\ event.worst = "retryable" /\ ErrClass(event.error) = "transport"
  /\ event.attempt = 4

\* C4: an attempt that fails with a 4xx status other than 429, or with a
\* validation failure of the payload, is not retried: the catch clause arms no
\* backoff sleep for it.
C4_FatalErrorNotRetried ==
  event.outcome = "retry" => ErrClass(event.error) # "fatal"

\* a 404 answer has been followed by a backoff sleep
C4_RetriedAfter404 ==
  /\ event.outcome = "retry" /\ event.error = StatusError(404)
  /\ \E c \in Pending : c.pc = "sleep"

\* C5: a step in which a fetch attempt fails writes no stored state and
\* invokes no observer.
C5_FailureKeepsState ==
  [][event'.outcome \in {"failed", "retry"} =>
       /\ currentRainState' = currentRainState
       /\ previousRainState' = previousRainState
       /\ switchOn' = switchOn
       /\ event'.notified = {}]_vars

\* a current-rain cycle has failed while the stored state was "raining"
C5_FailedWhileRaining ==
  /\ event.src = "current_rain" /\ event.outcome = "failed"
  /\ currentRainState = "true"

\* C6: once the platform is stopped, no step starts a fetch cycle and no
\* step invokes an observer.
C6_NothingAfterUnload ==
  [][(~isPolling /\ ~isPolling') =>
       /\ BagCardinality(cycles') <= BagCardinality(cycles)
       /\ event'.notified = {}]_vars

\* observers have been invoked on a stopped platform
C6_NotifiedAfterUnload ==
  ~isPolling /\ event.notified # {} /\ pollingIntervals = [s \in Sources |-> 0]

\* C7: once the platform is stopped, a cycle that was in flight may end, but
\* it writes no stored state and invokes no observer.
C7_InFlightResultDiscarded ==
  [][(~isPolling /\ ~isPolling' /\ BagCardinality(cycles') < BagCardinality(cycles)) =>
       /\ currentRainState' = currentRainState
       /\ previousRainState' = previousRainState
       /\ event'.notified = {}]_vars

\* a cycle has written the current-rain state on a stopped platform
C7_WrittenAfterUnload ==
  ~isPolling /\ event.outcome = "success" /\ currentRainState = "true"

\* C8: a timer tick of a running platform starts a cycle of a source only when
\* no cycle of that source is in flight.
C8_NoOverlap ==
  [][\A s \in Sources :
       (isPolling /\ isPolling' /\ InFlight(s)' > InFlight(s)) => InFlight(s) = 0]_vars

\* two cycles of one source are in flight on a running platform
C8_TwoInFlight ==
  isPolling /\ \E s \in Sources : InFlight(s) = 2

\* C9: for a source configured with a check interval below its minimum, no
\* timer is armed and no fetch is issued.
C9_ShortIntervalRejected ==
  \A s \in Sources :
    ( /\ config[s].present /\ config[s].check_interval # 0
      /\ config[s].check_interval < MinCheckInterval(s) )
      => pollingIntervals[s] = 0 /\ InFlight(s) = 0

\* a timer is armed with a period below the minimum of its source
C9_ShortIntervalArmed ==
  \E s \in Sources :
    /\ pollingIntervals[s] # 0
    /\ pollingIntervals[s] < MinCheckInterval(s) * 600

C11_RainIffVocabularyTerm ==
  ( /\ event.src = "current_rain" /\ event.body # NoBody
    /\ event.body.properties
    /\ event.body.textDescription.kind = "string"
    /\ event.body.textDescription.chars # <<>> )
    => LET d == event.body.textDescription.chars
           lower == toLowerCase(d)
           Vocabulary ==
             { <<"r","a","i","n">>, <<"d","r","i","z","z","l","e">>,
               <<"s","h","o","w","e","r">>,
               <<"p","r","e","c","i","p","i","t","a","t","i","o","n">>,
               <<"m","i","s","t">>, <<"f","o","g">>,
               <<"l","i","g","h","t"," ","r","a","i","n">>,
               <<"r","a">>, <<"d","z">>, <<"s","h","r","a">>,
               <<"f","z","r","a">>, <<"b","r">>, <<"f","g">> }
           Contains(term) ==
             \E i \in 1..Len(lower) :
               \A j \in 1..Len(term) :
                 i + j - 1 <= Len(lower) /\ lower[i + j - 1] = term[j]
       IN  /\ event.outcome = "success"
           /\ event.derived = "true" <=> \E term \in Vocabulary : Contains(term)
           /\ event.derived \in {"true", "false"}
           /\ currentRainState = event.derived
           /\ d = Str_LightRain => event.derived = "true"
           /\ d = Str_Sunny => event.derived = "false"

\* "Light Rain" has been answered and has derived "raining"
C11_LightRainDerivesRain ==
  /\ event.body = Observation(TRUE, Text("string", Str_LightRain))
  /\ event.derived = "true" /\ currentRainState = "true"

\* C12: for every daily series and thresholds, and a call that matches the
\* series against the local yesterday and day before, the derived previous-rain
\* state is true exactly when the previous-day sum is at least the previous-day
\* threshold or the two-day sum is at least the two-day threshold; a sum equal
\* to its threshold derives true.
C12_ThresholdsInclusive ==
  ( /\ event.src = "previous_rain" /\ event.outcome = "success"
    /\ event.dates \in {<<>>, <<-1, -2>>} )
    => LET data == IF event.body.hasData THEN event.body.data ELSE <<>>
           Amount(date) ==
             IF \E k \in 1..Len(data) : data[k].date = date /\ data[k].value.kind = "num"
             THEN data[CHOOSE k \in 1..Len(data) :
                         data[k].date = date /\ data[k].value.kind = "num"].value.n
             ELSE 0
           previousDaySum == Amount(-1)
           twoDaySum == Amount(-1) + Amount(-2)
       IN  event.derived \in {"true", "1"}
             <=> \/ previousDaySum >= PreviousDayThreshold
                 \/ twoDaySum >= TwoDayThreshold

\* a two-day sum equal to its threshold has derived "not met"
C12_EqualSumNotMet ==
  /\ config.previous_rain.two_day_threshold = 13
  /\ event.body = Rainfall(TRUE, <<Day(-3, Value("num", 0)), Day(-2, Value("num", 8)),
                                   Day(-1, Value("num", 5))>>)
  /\ event.outcome = "success" /\ event.derived = "false"
  /\ event.dates = <<-1, -2>>

\* C13: replacing every null daily value of an answer by an explicit 0 leaves
\* the three window sums and the derived state the same, and an answer with a
\* null value ends its cycle as a success.
C13_NullCountsAsZero ==
  (event.src = "previous_rain" /\ event.body # NoBody)
    => LET body == event.body
           zeroed ==
             [body EXCEPT !.data =
                [k \in 1..Len(body.data) |->
                   IF body.data[k].value.kind = "null"
                   THEN Day(body.data[k].date, Value("num", 0))
                   ELSE body.data[k]]]
       IN  /\ event.outcome = "success"
           /\ RainSums(zeroed) = RainSums(body)
           /\ PreviousRainNewState(zeroed) = event.derived
           /\ previousRainState = event.derived

\* an answer with a null day between two rainy days has met the threshold
C13_NullDayAnswered ==
  /\ event.body = Rainfall(TRUE, <<Day(-3, Value("num", 10)), Day(-2, Value("null", 0)),
                                   Day(-1, Value("num", 10))>>)
  /\ event.outcome = "success" /\ event.derived = "1"

\* C14: a failed attempt leaves every timer armed and the platform running,
\* and a source whose timer stays armed starts fetch cycles again and again,
\* whatever the outcomes of the cycles of either source.
C14_FailuresDoNotStopPolling ==
  /\ [][event'.outcome = "failed" =>
          pollingIntervals' = pollingIntervals /\ isPolling' = isPolling]_vars
  /\ \A s \in Sources :
       <>[](pollingIntervals[s] # 0) => []<><<Tick(s)>>_vars

\* a cycle has failed and the timer of its source can fire again
C14_TimerAliveAfterFailure ==
  /\ event.outcome = "failed" /\ isPolling
  /\ pollingIntervals[event.src] # 0
  /\ ENABLED Tick(event.src)

\* C15: the step that starts the platform issues, in that same step, exactly
\* one fetch for every source it starts and arms that source's timer with the
\* source's interval, and touches no other source; afterwards the cycles of a
\* source grow by one at a time, and only while its timer is armed.
C15_StartFetchesOnceAndArms ==
  [][/\ (~isPolling /\ isPolling') =>
          \A s \in Sources :
            IF s \in Polled
            THEN /\ InFlight(s)' = InFlight(s) + 1
                 /\ pollingIntervals'[s] = CheckIntervalMs(s)
            ELSE /\ InFlight(s)' = InFlight(s)
                 /\ pollingIntervals'[s] = pollingIntervals[s]
     /\ (isPolling /\ isPolling') =>
          \A s \in Sources :
            InFlight(s)' > InFlight(s) =>
              /\ pollingIntervals[s] # 0
              /\ InFlight(s)' = InFlight(s) + 1]_vars

\* the platform has just started: one cycle in flight per started source,
\* every started timer armed, nothing answered yet
C15_JustStarted ==
  /\ isPolling /\ Polled # {}
  /\ \A s \in Polled : InFlight(s) = 1 /\ pollingIntervals[s] = CheckIntervalMs(s)
  /\ \A s \in Sources : Len(log[s]) = 0
  /\ event = NoEvent

\* C16: a start called while timers are armed or the platform is polling
\* arms no timer and starts no cycle, and an unload called while nothing is
\* armed and the platform is not polling changes nothing of the platform.
C16_StartStopIdempotent ==
  [][/\ ((isPolling \/ \E s \in Sources : Timers(s) > 0)
          /\ (accessories \/ \E accepted \in BOOLEAN : initializeSwitches(accepted)))
        => /\ \A s \in Sources : Timers(s)' = Timers(s)
           /\ cycles' = cycles
           /\ isPolling' = isPolling
     /\ ((~isPolling /\ \A s \in Sources : Timers(s) = 0)
          /\ (unload \/ Switch_unload))
        => UNCHANGED <<pollingIntervals, orphanTimers, isPolling, cycles,
                       currentRainState, previousRainState, switchOn>>]_vars

\* a second start has armed a second timer for a source: the id of the first
\* is lost while both go on, and two initial fetches have been issued
C16_StartedAgainWhileRunning ==
  \E s \in Sources : orphanTimers[s] > 0 /\ pollingIntervals[s] # 0

\* the daily values of an answer that are dated before today
BeforeToday(body) ==
  Rainfall(body.hasData, SelectSeq(body.data, LAMBDA day : day.date < 0))

\* C17: a previous-rain request asks for a range that ends yesterday, and what
\* a successful cycle sums and derives is what it would sum and derive from
\* the same answer without the values dated today or later.
C17_TodayNeverCounts ==
  /\ \A c \in Pending : "edate" \in DOMAIN c => c.edate = -1
  /\ (event.outcome = "success" /\ event.src = "previous_rain") =>
       IF "total" \in DOMAIN event
       THEN /\ event.range[2] = -1
            /\ event.total = TotalRainfall(BeforeToday(event.body).data)
       ELSE event.dates = <<>> =>
              event.derived = PreviousRainNewState(BeforeToday(event.body))

\* a cycle has answered with a number dated today in its answer
C17_TodayInAnswer ==
  /\ event.outcome = "success" /\ event.src = "previous_rain"
  /\ event.body.hasData
  /\ \E i \in 1..Len(event.body.data) :
       event.body.data[i].date = 0 /\ IsNumeric(event.body.data[i].value)
       /\ event.body.data[i].value.n > 0

\* C18: the dates a previous-rain check uses as yesterday and as the day
\* before yesterday, in its request and in its windows, are the local
\* calendar day minus 1 and minus 2 at every instant and in every zone.
C18_LocalCalendarDays ==
  /\ yesterdayStr = -1 /\ dayBeforeYesterdayStr = -2
  /\ \A c \in Pending :
       "yesterdayStr" \in DOMAIN c =>
         c.yesterdayStr = -1 /\ c.dayBeforeYesterdayStr = -2

\* a previous-rain check has computed its dates and waits for its answer
C18_DatesComputed ==
  \E c \in Pending : "yesterdayStr" \in DOMAIN c /\ c.pc = "request"

\* what a consumer reads as the state of source s
ReadState(s) ==
  IF s = "current_rain" THEN getCurrentRainState ELSE getPreviousRainState

\* the value a read returns for a derived state
AsRead(s, derived) ==
  IF s = "current_rain" THEN (IF derived = "true" THEN "1" ELSE "0") ELSE derived

\* C19: a source with an accessory and no successful cycle so far reads as "none", and a
\* source with one successful cycle so far, whatever failed since, reads as
\* the state that cycle derived.
C19_NoneUntilFirstSuccess ==
  \A s \in accessoryLookup :
    /\ Len(log[s]) = 0 => ReadState(s) = "none"
    /\ Len(log[s]) = 1 => ReadState(s) = AsRead(s, log[s][1].derived)

\* a started source has failed and has never succeeded
C19_FailedBeforeAnySuccess ==
  /\ isPolling /\ event.outcome = "failed"
  /\ event.src \in Polled /\ Len(log[event.src]) = 0

\* C20: after a successful cycle the state stored for its source is the state
\* the cycle derived from its answer, and a read of the state returns it.
C20_StoredIsDerived ==
  event.outcome = "success" =>
    /\ event.src = "current_rain" => currentRainState = event.derived
    /\ event.src = "previous_rain" => previousRainState = event.derived
    /\ ReadState(event.src) = AsRead(event.src, event.derived)

\* a cycle has derived rain, or a threshold as not met
C20_DerivedOtherThanConstant ==
  /\ event.outcome = "success"
  /\ \/ event.src = "current_rain" /\ event.derived = "true"
     \/ event.src = "previous_rain" /\ event.derived = "0"

\* the numeric amount an answer carries for a date (0 without one)
AmountOn(body, date) ==
  LET data == IF body.hasData THEN body.data ELSE <<>>
  IN  IF \E k \in 1..Len(data) : data[k].date = date /\ data[k].value.kind = "num"
      THEN data[CHOOSE k \in 1..Len(data) :
                  data[k].date = date /\ data[k].value.kind = "num"].value.n
      ELSE 0

\* C21: a previous-rain cycle that matches its answer against the local
\* yesterday and day before compares the previous-day sum with the configured
\* previous_day_threshold, or with 0.1 when it is omitted, and the two-day sum
\* with the configured two_day_threshold, or with 0.25 when it is omitted.
C21_DefaultThresholds ==
  ( /\ event.src = "previous_rain" /\ event.outcome = "success"
    /\ event.dates \in {<<>>, <<-1, -2>>} )
    => LET section == config.previous_rain
           dayThreshold == IF section.previous_day_threshold = 0 THEN 10
                           ELSE section.previous_day_threshold
           twoDayThreshold == IF section.two_day_threshold = 0 THEN 25
                              ELSE section.two_day_threshold
           previousDaySum == AmountOn(event.body, -1)
           twoDaySum == AmountOn(event.body, -1) + AmountOn(event.body, -2)
           met == event.derived \in {"true", "1"}
       IN  /\ previousDaySum >= dayThreshold => met
           /\ twoDaySum >= twoDayThreshold => met
           /\ (previousDaySum < dayThreshold /\ twoDaySum < twoDayThreshold) => ~met

\* both thresholds are omitted and the answer carries 0.10 for yesterday
C21_OmittedThresholdReached ==
  /\ event.src = "previous_rain" /\ event.outcome = "success"
  /\ event.dates \in {<<>>, <<-1, -2>>}
  /\ config.previous_rain.previous_day_threshold = 0
  /\ config.previous_rain.two_day_threshold = 0
  /\ AmountOn(event.body, -1) = 10

\* C22: while the platform is polling, every source that has a sensor has an
\* armed timer, whether or not its section names a station.
C22_EverySensorIsPolled ==
  isPolling => \A s \in accessoryLookup : pollingIntervals[s] # 0

\* the platform polls and holds a sensor whose section names no station
C22_SensorWithoutStation ==
  /\ isPolling
  /\ \E s \in accessoryLookup : config[s].present /\ ~config[s].station_id

\* C23: the value a switch reports changes only in the step in which a cycle
\* of its source succeeds, and then to the state that cycle derived; so no set
\* request changes it, nor what a later cycle compares its derived state with.
C23_SwitchesReadOnly ==
  [][\A s \in Sources :
       switchOn'[s] # switchOn[s] =>
         /\ event'.outcome = "success" /\ event'.src = s
         /\ switchOn'[s] = event'.derived]_vars

\* a switch is on although no cycle of its source has succeeded
C23_OnWithoutSuccess ==
  \E s \in Sources : launched /\ switchOn[s] = "true" /\ Len(log[s]) = 0

\* C24: the stored state of a source changes only in the step in which a
\* fetch cycle of that source succeeds.
C24_OnlyOwnCycleWrites ==
  [][/\ currentRainState' # currentRainState =>
          event'.outcome = "success" /\ event'.src = "current_rain"
     /\ previousRainState' # previousRainState =>
          event'.outcome = "success" /\ event'.src = "previous_rain"]_vars

\* the platform stores "raining" although no current-rain cycle has succeeded
C24_RainingWithoutCycle ==
  currentRainState = "true" /\ Len(log.current_rain) = 0

\* C25: a cycle whose answer carries values that are present and not numeric
\* succeeds, derives what it would derive with a 0 in the place of each of
\* them, and logs one warning for each of them.
C25_NonNumericIsZeroAndWarned ==
  ( /\ event.src = "previous_rain" /\ event.body # NoBody
    /\ "warnings" \in DOMAIN event )
    => LET body == event.body
           invalid == {k \in 1..Len(body.data) : body.data[k].value.kind = "nan"}
           zeroed ==
             [body EXCEPT !.data =
                [k \in 1..Len(body.data) |->
                   IF k \in invalid THEN Day(body.data[k].date, Value("num", 0))
                   ELSE body.data[k]]]
       IN  /\ event.outcome = "success"
           /\ event.dates = <<>> =>
                /\ RainSums(zeroed) = RainSums(body)
                /\ event.derived = PreviousRainNewState(zeroed)
           /\ event.dates # <<>> =>
                TwoDayRainSums(event.dates[1], event.dates[2], zeroed)
                  = TwoDayRainSums(event.dates[1], event.dates[2], body)
           /\ event.warnings = Cardinality(invalid)

\* an answer with a value that is present and not numeric has been answered
C25_NonNumericAnswered ==
  /\ event.src = "previous_rain" /\ event.outcome = "success"
  /\ \E k \in 1..Len(event.body.data) : event.body.data[k].value.kind = "nan"

\* C26: a cycle of either source is not given up on a transport failure
\* after a single attempt: when it fails with one, it has made more than one.
C26_TransportFailureRetried ==
  (event.outcome = "failed" /\ event.error = TransportError) => event.attempt > 1

\* a cycle has failed with a transport failure
C26_FailedOnTransport ==
  /\ event.outcome = "failed" /\ event.error = TransportError
  /\ event.src \in Sources

\* what a read returns only for a state that a cycle derived
DerivedReads(s) == IF s = "current_rain" THEN {"1"} ELSE {"0", "1"}

\* C27: the step that starts the platform again after a stop issues one fetch
\* for every source it starts, and after it a read of such a source does not
\* return a state derived before the stop.
C27_RestartFetchesAfresh ==
  [][(~isPolling /\ isPolling' /\ accessoryLookup # {}) =>
       \A s \in Polled :
         /\ InFlight(s)' = InFlight(s) + 1
         /\ ReadState(s)' \notin DerivedReads(s)]_vars

\* the platform has been stopped while it stores a state that a cycle derived
C27_StoppedWithDerivedState ==
  /\ ~isPolling /\ accessoryLookup # {}
  /\ \E s \in Polled : Len(log[s]) > 0 /\ ReadState(s) \in DerivedReads(s)

\* C28: what a cycle derives from an answer is what every other run derives
\* from the same answer: a current-rain cycle derives the classification of the
\* description, and a previous-rain cycle the window sums and the state that
\* a run on the day the answer's dates are counted from derives, whatever the
\* day it runs on and whatever state the earlier cycles left.
C28_SameAnswerSameResult ==
  event.outcome = "success" =>
    /\ event.src = "current_rain" =>
         event.derived = Bool(isRaining(toLowerCase(event.body.textDescription.chars)))
    /\ (event.src = "previous_rain" /\ "sums" \in DOMAIN event) =>
         /\ event.sums = RainSums(event.body)
         /\ event.derived = PreviousRainNewState(event.body)

\* an answer that meets a threshold for a run on the day its dates are counted
\* from has been answered to a run one day later, which derived "not met"
C28_AnsweredOnALaterDay ==
  /\ event.outcome = "success" /\ event.src = "previous_rain"
  /\ "today" \in DOMAIN event /\ event.today = 1
  /\ PreviousRainNewState(event.body) = "1" /\ event.derived = "0"

\* C29: a previous-rain check of the switch asks for an inclusive date range
\* of exactly two calendar days, and the total it compares with the threshold
\* is the sum of the amounts of the last two days of its range.
C29_ExactlyTwoDays ==
  /\ \A c \in Pending : "sdate" \in DOMAIN c => c.edate - c.sdate + 1 = 2
  /\ (event.outcome = "success" /\ "range" \in DOMAIN event) =>
       /\ event.range[2] - event.range[1] + 1 = 2
       /\ event.total = AmountOn(event.body, event.range[2])
                          + AmountOn(event.body, event.range[2] - 1)

\* a check has turned its switch on with an answer whose last two days stay
\* below the threshold
C29_ThirdDayDecides ==
  /\ event.outcome = "success" /\ "threshold" \in DOMAIN event
  /\ AmountOn(event.body, event.range[2])
       + AmountOn(event.body, event.range[2] - 1) < event.threshold
  /\ event.total >= event.threshold
  /\ event.derived = "true" /\ switchOn["previous_rain"] = "true"

\* C30: in a successful previous-rain check the previous-day window sum is
\* the amount of its yesterday alone, and the sum it compares with the two-day
\* threshold is that amount plus the amount of its day before yesterday, each
\* counted once.
C30_EachDayOnce ==
  (event.outcome = "success" /\ "compared" \in DOMAIN event) =>
    LET yesterday == IF "today" \in DOMAIN event THEN event.today - 1
                     ELSE event.dates[1]
        dayBefore == IF "today" \in DOMAIN event THEN event.today - 2
                     ELSE event.dates[2]
    IN  /\ event.sums.previousDayRain = AmountOn(event.body, yesterday)
        /\ event.compared = AmountOn(event.body, yesterday)
                              + AmountOn(event.body, dayBefore)

\* a check has derived 1 from an answer whose yesterday stays below the
\* previous-day threshold and whose two days stay below the two-day threshold
C30_YesterdayTwice ==
  /\ event.outcome = "success" /\ "compared" \in DOMAIN event
  /\ "today" \notin DOMAIN event
  /\ config.previous_rain.previous_day_threshold > 0
  /\ AmountOn(event.body, event.dates[1]) > 0
  /\ AmountOn(event.body, event.dates[1]) < config.previous_rain.previous_day_threshold
  /\ AmountOn(event.body, event.dates[1]) + AmountOn(event.body, event.dates[2])
       < config.previous_rain.two_day_threshold
  /\ event.compared >= config.previous_rain.two_day_threshold
  /\ event.derived = "1"

\* C31: when a cycle notifies a change, updateData() runs on the accessories
\* in the order in which createAccessories() registered them, in the step of
\* the cycle that stored the new state.
C31_RegistrationOrder ==
  (event.outcome = "success" /\ event.notified # <<>>) =>
    /\ \A i, j \in 1..Len(event.notified) :
         i < j => event.notified[i].created < event.notified[j].created
    /\ event.src = "current_rain" => currentRainState = event.derived
    /\ event.src = "previous_rain" => previousRainState = event.derived

\* a change has been notified to two accessories whose names are array indices
C31_TwoIndexNames ==
  /\ event.outcome = "success" /\ Len(event.notified) = 2
  /\ IsArrayIndex(config.current_rain.name)
  /\ IsArrayIndex(config.previous_rain.name)
  /\ event.notified[1].accessoryType = "previous_rain"

\* C32: a cycle that notifies a change invokes only the accessory of its own
\* source: a current-rain change does not invoke the previous-rain accessory
\* and a previous-rain change does not invoke the current-rain accessory.
C32_OnlyOwnObservers ==
  event.outcome = "success" => event.notified \subseteq {event.src}

\* a current-rain change has invoked the previous-rain accessory
C32_OtherObserverInvoked ==
  /\ event.outcome = "success" /\ event.src = "current_rain"
  /\ event.derived = "true" /\ currentRainState = "true"
  /\ "previous_rain" \in event.notified

\* C33: the step that ends a current-rain cycle leaves previousRainState as it
\* was, and the step that ends a previous-rain cycle leaves currentRainState
\* as it was, whatever cycles of the other source are in flight.
C33_NoCrossWrites ==
  [][ /\ event'.src = "current_rain" => previousRainState' = previousRainState
      /\ event'.src = "previous_rain" => currentRainState' = currentRainState ]_vars

\* a current-rain cycle has ended with a success while a previous-rain cycle
\* is in flight and an earlier previous-rain cycle has stored 1
C33_InterleavedCycles ==
  /\ event.outcome = "success" /\ event.src = "current_rain"
  /\ event.derived = "true"
  /\ previousRainState = "1"
  /\ InFlight("previous_rain") > 0

\* C34: every fetch cycle ends, whether or not the server answers: once the
\* timer of a source is stopped for good, the cycles of that source that are
\* in flight all end.
C34_EveryCycleEnds ==
  \A s \in Sources : <>[](pollingIntervals[s] = 0) => <>[](InFlight(s) = 0)

\* the platform has been unloaded while a previous-rain request is waiting
C34_WaitingAfterUnload ==
  /\ ~isPolling /\ \A s \in Sources : pollingIntervals[s] = 0
  /\ InFlight("previous_rain") > 0
  /\ \E c \in Pending : c.src = "previous_rain" /\ c.pc = "request"

\* C35: every armed timer is the one recorded in pollingIntervals for its
\* source, so that no timer is left for unload() to miss, and pollingIntervals
\* holds a timer only while isPolling is true.
C35_TimersRecorded ==
  /\ \A s \in Sources : orphanTimers[s] = 0
  /\ (\E s \in Sources : pollingIntervals[s] # 0) => isPolling

\* polling has started with a timer that pollingIntervals does not hold
C35_UnrecordedTimer ==
  /\ launched
  /\ orphanTimers["previous_rain"] > 0
  /\ pollingIntervals["previous_rain"] = 0
  /\ \E now \in Instants : ENABLED RainSwitch_Tick(now)

\* C36: the stored previous-rain state and the value getPreviousRainState()
\* returns are always one of the contact sensor values 0 and 1, and a first
\* successful previous-rain cycle that derives 0 notifies no change.
C36_ContactSensorValues ==
  /\ previousRainState \in {"0", "1"}
  /\ getPreviousRainState \in {"0", "1"}
  /\ (Len(log.previous_rain) >= 1 /\ log.previous_rain[1].derived = "0")
       => ~log.previous_rain[1].notified

\* the first successful previous-rain cycle has derived 0 and has called
\* updateAllAccessories()
C36_FirstZeroNotified ==
  /\ event.outcome = "success" /\ event.src = "previous_rain"
  /\ Len(log.previous_rain) = 1
  /\ log.previous_rain[1].derived = "0" /\ log.previous_rain[1].notified
  /\ "previous_rain" \in event.notified
  /\ previousRainState = "0"

\* C37: in a cycle that notifies a change, the getter of the changed source
\* returns the new state during the notification, and when updateData()
\* throws the cycle ends as failed with the new state stored.
C37_StoredBeforeNotified ==
  "seen" \in DOMAIN event =>
    /\ \A a \in DOMAIN event.seen :
         a = event.src => event.seen[a] = AsRead(event.src, event.derived)
    /\ event.error = ObserverError =>
         /\ event.outcome = "failed"
         /\ event.src = "current_rain" => currentRainState = event.derived
         /\ event.src = "previous_rain" => previousRainState = event.derived

\* updateData() of the current rain sensor has thrown while a change to
\* raining was being notified
C37_ObserverThrew ==
  /\ "seen" \in DOMAIN event /\ event.error = ObserverError
  /\ event.src = "current_rain" /\ event.derived = "true"
  /\ event.notified = {"current_rain"}
  /\ event.seen["current_rain"] = "1"

\* C38: at the end of the parsing loop the window sums are ordered,
\* previousDayRain <= twoDayRain <= threeDayRain, for every answer with
\* non-negative values, whatever dates it lists and however often.
C38_WindowsOrdered ==
  (event.outcome = "success" /\ "windows" \in DOMAIN event) =>
    /\ event.windows.previousDayRain <= event.windows.twoDayRain
    /\ event.windows.twoDayRain <= event.windows.threeDayRain

\* an answer has listed yesterday twice with different amounts, and a date
\* before the range
C38_DuplicateAndOutOfRange ==
  /\ event.outcome = "success" /\ "windows" \in DOMAIN event
  /\ Len(event.body.data) = 3
  /\ event.body.data[1] = Day(-1, Value("num", 10))
  /\ event.body.data[2] = Day(-4, Value("num", 5))
  /\ event.body.data[3] = Day(-1, Value("num", 5))
  /\ event.windows = [previousDayRain |-> 5, twoDayRain |-> 15, threeDayRain |-> 15]

\* C39: every cycle that a start or a timer tick adds begins at retryCount 0,
\* whatever the cycles before it did; a cycle that goes on keeps its retryCount
\* when a failed attempt sends it to sleep and has it raised by exactly 1 when
\* it wakes for the next attempt; and the attempt a cycle ends on is its
\* retryCount plus 1.
C39_RetryCounterPerCycle ==
  [][ /\ BagCardinality(cycles') > BagCardinality(cycles) =>
           \A d \in BagToSet(cycles') :
             CopiesIn(d, cycles') > CopiesIn(d, cycles) =>
               d.retryCount = 0 /\ d.pc = "request"
      /\ (BagCardinality(cycles') = BagCardinality(cycles) /\ cycles' # cycles) =>
           \E c \in Pending, d \in BagToSet(cycles') :
             /\ cycles' = Becomes(c, d) /\ d.src = c.src
             /\ \/ /\ c.pc = "request" /\ d.pc = "sleep"
                   /\ d.retryCount = c.retryCount /\ event'.outcome = "retry"
                \/ /\ c.pc = "sleep" /\ d.pc = "request"
                   /\ d.retryCount = c.retryCount + 1
      /\ BagCardinality(cycles') < BagCardinality(cycles) =>
           \E c \in Pending : cycles' = Ended(c) /\ event'.attempt = c.retryCount + 1
    ]_vars

\* a current-rain cycle on its third attempt and one on its first attempt are
\* in flight together
C39_ThirdAndFirstAttempt ==
  \E c, d \in Pending :
    /\ c.src = "current_rain" /\ d.src = "current_rain"
    /\ c.retryCount = 2 /\ c.pc = "request"
    /\ d.retryCount = 0 /\ d.pc = "request"

====
